---- MODULE Spec2Model ----
(***************************************************************************)
(* A model of the ontology ingestion and retrieval pipelines of            *)
(* matportal/ontoportal-rag:                                               *)
(*   - process_ontology_task and IndexingService (delete / upsert into the *)
(*     vector store under deterministic identifiers),                      *)
(*   - OntologySanitizer.sanitize and its three default steps,             *)
(*   - _load_graph_with_fallbacks and _detect_candidate_formats,           *)
(*   - RetrievalService.answer_query (search, rerank, generation),         *)
(*   - OntologySyncService.sync (catalog comparison and task dispatch).    *)
(* Each subsystem has its own specification over the shared variables.     *)
(***************************************************************************)
EXTENDS Integers, Sequences, FiniteSets, TLC

VARIABLES
    store,       \* the vector store: a set of records, at most one per id
    task,        \* task[k]: the k-th dispatched process_ontology_task
    disturbed,   \* history: disturbed[k] iff another ingestion of the same
                 \* ontology identifier was running during or after run k
    failures,    \* number of task runs that have raised so far
    san,         \* OntologySanitizer.sanitize: position, steps, candidates
    files,       \* the file system: path -> content, for the files that exist
    san_log,     \* history: one entry per step.process(candidate) call
    faults,      \* number of sanitizer step calls that have raised so far
    load,        \* _load_graph_with_fallbacks: position, formats, result
    attempts,    \* history: one entry per g.parse(candidate, format) call
    query,       \* RetrievalService and its answer_query call
    calls,       \* history: the provider calls answer_query has made
    catalog,     \* the catalog: acronym -> version of its latest submission
    sync,        \* OntologySyncService.sync: the cycle in progress
    sync_log,    \* history: one entry per _process_ontology call of the cycle
    doc,         \* a text handed to a sanitizer step or to the splitter
    api          \* history: one entry per request to the ingest endpoint

ingestVars == <<store, task, disturbed, failures>>

sanVars == <<san, files, san_log, faults>>

loadVars == <<load, attempts>>

queryVars == <<query, calls>>

syncVars == <<catalog, sync, sync_log>>

textVars == <<doc>>

apiVars == <<api>>

vars == <<store, task, disturbed, failures, san, files, san_log, faults,
          load, attempts, query, calls, catalog, sync, sync_log, doc, api>>

(***************************************************************************)
(* Bounds of the model.                                                    *)
(***************************************************************************)
MaxChunks == 2     \* chunks a document splits into
MaxFailures == 1   \* task runs that raise (each may be followed by a re-run)
MaxStepFaults == 1 \* sanitizer step calls that raise an unexpected exception
MaxLiteralChars == 3   \* stands for MAX_LITERAL_CHARS = 5000
MaxLines == 6      \* lines of a Markdown document
MaxRequests == 2   \* ingest requests handled
MaxHits == 6       \* objects a search returns (the code asks for at most 25)

\* The ingestion tasks of the model, numbered in dispatch order: two tasks
\* give every pairing of an earlier or concurrent run with a later one.
TaskNums == {1, 2}
Ontologies == {"X", "Y"}
IngestVersions == {"v1"}

(***************************************************************************)
(* Strings are sequences of one-character strings.                         *)
(***************************************************************************)
Digit(d) ==
    CASE d = 0 -> "0" [] d = 1 -> "1" [] d = 2 -> "2" [] d = 3 -> "3"
      [] d = 4 -> "4" [] d = 5 -> "5" [] d = 6 -> "6" [] d = 7 -> "7"
      [] d = 8 -> "8" [] OTHER -> "9"

RECURSIVE IntToStr(_)
IntToStr(n) ==
    IF n < 10 THEN <<Digit(n)>>
    ELSE IntToStr(n \div 10) \o <<Digit(n % 10)>>

\* self.request.id of the k-th dispatched task (Celery assigns a fresh id).
TaskId(k) == <<"t">> \o IntToStr(k)

\* uuid.uuid5(NAMESPACE_URL, name): a deterministic hash of the name,
\* taken to be collision free and so represented by the name itself.
Uuid5(name) == <<"urn">> \o name

\* An identifier that also depends on the run (as uuid4 or a timestamp would).
DeterministicUuidPerRun(task_id, i) ==
    Uuid5(task_id \o <<"-">> \o IntToStr(i) \o <<"-">> \o IntToStr(failures))

\* An identifier built from the chunk index alone.
DeterministicUuidNoTask(task_id, i) == Uuid5(IntToStr(i))

\* uuid.uuid5(uuid.NAMESPACE_URL, f"{task_id}-{i}")
DeterministicUuid(task_id, i) == Uuid5(task_id \o <<"-">> \o IntToStr(i))

\* page_content of chunk i of the document of ontology o at version v:
\* parsing, conversion and splitting are deterministic in the uploaded file.
ChunkContent(o, v, i) == <<o, v, i>>

\* metadata passed by the caller (json.loads(metadata_json)).
ParsedMetadata(o) == [acronym |-> o]

\* The data_object built for chunk i by batch_index_chunks of task k together
\* with its uuid; tsk and idx record which (task, chunk index) wrote it.
DataObject(k, o, v, i) ==
    [id |-> DeterministicUuid(TaskId(k), i),
     content |-> ChunkContent(o, v, i),
     ontology_id |-> o,
     version |-> v,
     metadata |-> ParsedMetadata(o),
     tsk |-> k,
     idx |-> i]

ChunkRecord(k, i) == DataObject(k, task[k].ontology_id, task[k].version, i)

\* batch.add_data_object with an explicit uuid: create or replace by id.
Upsert(s, r) == {x \in s : x.id # r.id} \cup {r}

DeleteNothing(s, o) == s

\* client.batch.delete_objects(where ontology_id Equal o)
DeleteByOntologyId(s, o) == {x \in s : x.ontology_id # o}

RecordsOf(s, o) == {x \in s : x.ontology_id = o}

Running == {"prepared", "chunked"}

\* Exceptions a step can raise, by type(e).__name__ and str(e).
TaskExceptions ==
    {[type |-> "ValueError", message |-> "bad input"],
     [type |-> "OSError", message |-> "io"]}
NoTaskException == [type |-> "none", message |-> "none"]

\* What shutil.rmtree raises when the temporary directory cannot be removed.
CleanupError == [type |-> "PermissionError", message |-> "rmtree"]

\* meta={'exc_type': type(e).__name__, 'exc_message': str(e)}
FailureMeta(exc) == [exc_type |-> exc.type, exc_message |-> exc.message]
NoMeta == [exc_type |-> "none", exc_message |-> "none"]

\* {"status": "success", "chunks_indexed": len(chunks)}
SuccessResult(n) == [status |-> "success", chunks_indexed |-> n]
NoResult == [status |-> "none", chunks_indexed |-> 0]

\* state and meta are what update_state stored, raised is the exception that
\* left the task function and returned is the value it returned.
NoTask ==
    [pc |-> "none", ontology_id |-> "X", version |-> "v1", is_update |-> FALSE,
     nchunks |-> 0, next_i |-> 0, failed_at |-> "none", sent_before |-> 0,
     state |-> "PENDING", meta |-> NoMeta, raised |-> NoTaskException,
     returned |-> NoResult]

\* History bookkeeping for "no other ingestion of the same ontology ran
\* concurrently with, or after, run k".
Disturb(new) ==
    [k \in TaskNums |->
        IF new[k].pc = "queued" THEN FALSE
        ELSE disturbed[k]
             \/ ( new[k].pc \in Running \cup {"success"}
                  /\ \E j \in TaskNums \ {k} :
                        /\ new[j].ontology_id = new[k].ontology_id
                        /\ new[j].pc \in Running )]

IngestInit ==
    /\ store = {}
    /\ task = [k \in TaskNums |-> NoTask]
    /\ disturbed = [k \in TaskNums |-> FALSE]
    /\ failures = 0

\* process_ontology_task.delay(...): tasks are numbered in dispatch order.
\* n is the number of chunks the uploaded file splits into.
Enqueue(k, o, v, u, n) ==
    /\ task[k].pc = "none"
    /\ \A j \in TaskNums : j < k => task[j].pc # "none"
    /\ LET new == [task EXCEPT ![k] =
                     [pc |-> "queued", ontology_id |-> o, version |-> v,
                      is_update |-> u, nchunks |-> n, next_i |-> 0,
                      failed_at |-> "none", sent_before |-> 0,
                      state |-> "PENDING", meta |-> NoMeta,
                      raised |-> NoTaskException, returned |-> NoResult]]
       IN /\ task' = new
          /\ disturbed' = Disturb(new)

\* The ingest endpoint dispatches the task for an uploaded file.
Dispatch(k, o, v, u, n) ==
    /\ Enqueue(k, o, v, u, n)
    /\ UNCHANGED <<store, failures, sanVars, loadVars, queryVars, syncVars, textVars, apiVars>>

TaskStartLocked(k) ==
    /\ task[k].pc = "queued"
    /\ \A j \in TaskNums \ {k} :
          task[j].ontology_id = task[k].ontology_id => task[j].pc \notin Running
    /\ store' = IF task[k].is_update
                THEN DeleteByOntologyId(store, task[k].ontology_id)
                ELSE store
    /\ LET new == [task EXCEPT ![k].pc = "prepared"]
       IN /\ task' = new
          /\ disturbed' = Disturb(new)
    /\ UNCHANGED <<failures, sanVars, loadVars, queryVars, syncVars, textVars, apiVars>>

\* A start that leaves the delete for after the file has been parsed.
TaskStartDeferDelete(k) ==
    /\ task[k].pc = "queued"
    /\ LET new == [task EXCEPT ![k].pc = "prepared"]
       IN /\ task' = new
          /\ disturbed' = Disturb(new)
    /\ UNCHANGED <<store, failures, sanVars, loadVars, queryVars, syncVars, textVars, apiVars>>

\* Lines 117-132: the worker picks the task up, decodes the payload, creates
\* the IndexingService, ensures the schema and,
\* if is_update, calls delete_by_ontology_id(ontology_id).
TaskStart(k) ==
    /\ task[k].pc = "queued"
    /\ store' = IF task[k].is_update
                THEN DeleteByOntologyId(store, task[k].ontology_id)
                ELSE store
    /\ LET new == [task EXCEPT ![k].pc = "prepared"]
       IN /\ task' = new
          /\ disturbed' = Disturb(new)
    /\ UNCHANGED <<failures, sanVars, loadVars, queryVars, syncVars, textVars, apiVars>>

\* Lines 134-150: load the graph, convert to Markdown, split, decode metadata.
TaskLoad(k) ==
    /\ task[k].pc = "prepared"
    /\ LET new == [task EXCEPT ![k].pc = "chunked", ![k].next_i = 0]
       IN /\ task' = new
          /\ disturbed' = Disturb(new)
    /\ UNCHANGED <<store, failures, sanVars, loadVars, queryVars, syncVars, textVars, apiVars>>

\* An ingestion that indexes each chunk as soon as it is split off, while
\* loading and splitting are still under way.
TaskUpsertStreaming(k) ==
    /\ task[k].pc \in Running
    /\ task[k].next_i < task[k].nchunks
    /\ store' = Upsert(store, ChunkRecord(k, task[k].next_i))
    /\ LET new == [task EXCEPT ![k].next_i = task[k].next_i + 1]
       IN /\ task' = new
          /\ disturbed' = Disturb(new)
    /\ UNCHANGED <<failures, sanVars, loadVars, queryVars, syncVars, textVars, apiVars>>

\* batch_index_chunks: the objects reach the store in index order (in
\* batches of 100 and at the end of the with-block; a batch is not atomic).
TaskUpsert(k) ==
    /\ task[k].pc = "chunked"
    /\ task[k].next_i < task[k].nchunks
    /\ store' = Upsert(store, ChunkRecord(k, task[k].next_i))
    /\ LET new == [task EXCEPT ![k].next_i = task[k].next_i + 1]
       IN /\ task' = new
          /\ disturbed' = Disturb(new)
    /\ UNCHANGED <<failures, sanVars, loadVars, queryVars, syncVars, textVars, apiVars>>

\* Line 159: return {"status": "success", "chunks_indexed": len(chunks)},
\* after which the finally block removes the temporary directory.
TaskFinish(k) ==
    /\ task[k].pc = "chunked"
    /\ task[k].next_i = task[k].nchunks
    /\ LET new == [task EXCEPT ![k].pc = "success",
                               ![k].returned = SuccessResult(task[k].nchunks)]
       IN /\ task' = new
          /\ disturbed' = Disturb(new)
    /\ UNCHANGED <<store, failures, sanVars, loadVars, queryVars, syncVars, textVars, apiVars>>

\* Lines 161-170: a step raises (before the delete, in the delete, between
\* delete and upsert, or while upserting); the state becomes FAILURE and the
\* exception is re-raised. Objects already sent stay in the store. The
\* finally block then removes the temporary directory: when rmtree raises,
\* its exception replaces the one in flight.
TaskRaise(k) ==
    /\ failures < MaxFailures
    /\ failures' = failures + 1
    /\ \/ task[k].pc \in {"queued", "prepared"}
       \/ task[k].pc = "chunked" /\ task[k].next_i < task[k].nchunks
    /\ \E exc \in TaskExceptions, cleanup_ok \in BOOLEAN :
         LET new == [task EXCEPT ![k].pc = "failed",
                                 ![k].failed_at = task[k].pc,
                                 ![k].state = "FAILURE",
                                 ![k].meta = FailureMeta(exc),
                                 ![k].raised = IF cleanup_ok THEN exc
                                               ELSE CleanupError]
         IN /\ task' = new
            /\ disturbed' = Disturb(new)
    /\ UNCHANGED <<store, sanVars, loadVars, queryVars, syncVars, textVars, apiVars>>

\* Lines 159, 165-170: every step of the try block completed and the return
\* value is computed, but rmtree raises in the finally block: the exception
\* leaves the task instead of the return value and the except block, which
\* belongs to the try body, does not run.
TaskCleanupRaise(k) ==
    /\ failures < MaxFailures
    /\ failures' = failures + 1
    /\ task[k].pc = "chunked"
    /\ task[k].next_i = task[k].nchunks
    /\ LET new == [task EXCEPT ![k].pc = "failed",
                               ![k].failed_at = "cleanup",
                               ![k].raised = CleanupError]
       IN /\ task' = new
          /\ disturbed' = Disturb(new)
    /\ UNCHANGED <<store, sanVars, loadVars, queryVars, syncVars, textVars, apiVars>>

\* A failed task is executed again under the same task id with the same file
\* (sent_before remembers how many objects the failed runs had sent at most).
TaskRerun(k) ==
    /\ task[k].pc = "failed"
    /\ LET new == [task EXCEPT ![k].pc = "queued", ![k].next_i = 0,
                               ![k].failed_at = "none",
                               ![k].state = "PENDING", ![k].meta = NoMeta,
                               ![k].raised = NoTaskException,
                               ![k].sent_before =
                                   IF task[k].next_i > task[k].sent_before
                                   THEN task[k].next_i
                                   ELSE task[k].sent_before]
       IN /\ task' = new
          /\ disturbed' = Disturb(new)
    /\ UNCHANGED <<store, failures, sanVars, loadVars, queryVars, syncVars, textVars, apiVars>>

IngestNext ==
    \E k \in TaskNums :
        \/ \E o \in Ontologies, v \in IngestVersions, u \in BOOLEAN,
              n \in 0..MaxChunks : Dispatch(k, o, v, u, n)
        \/ TaskStart(k)
        \/ TaskLoad(k)
        \/ TaskUpsert(k)
        \/ TaskFinish(k)
        \/ TaskRaise(k)
        \/ TaskCleanupRaise(k)
        \/ TaskRerun(k)

(***************************************************************************)
(* Files and paths. A path is a directory and a name; a name is the stem  *)
(* followed by its suffixes, so "onto.ttl.literal" is                      *)
(* <<"onto", ".ttl", ".literal">>. A file's content is abstracted to what  *)
(* the steps and the format detection read from it: whether it holds a     *)
(* literal over the truncation threshold (long), whether it holds a        *)
(* literal with an invalid language tag (bad), and which markers its first *)
(* 500 characters show (head).                                             *)
(***************************************************************************)
UploadPath(name) == [dir |-> "upload", name |-> name]
WorkPath(name) == [dir |-> "workspace", name |-> name]

SourceNames == {<<"onto", ".ttl">>, <<"onto", ".owl">>, <<"onto">>}
Heads == {{}, {"xml"}, {"prefix"}, {"jsonld"}, {"xml", "prefix"}}
Contents == [long : BOOLEAN, bad : BOOLEAN, head : Heads]

\* The inputs of the sanitizer runs: the head of a file plays no part in
\* sanitize, and a name without suffix is treated there like ".owl".
SanitizeNames == {<<"onto", ".ttl">>, <<"onto", ".owl">>}
SanitizeContents == [long : BOOLEAN, bad : BOOLEAN, head : {{"prefix"}}]

\* pathlib: path.suffixes, path.suffix, path.with_suffix, path.with_name
Suffixes(p) == Tail(p.name)
Suffix(p) == IF Len(p.name) > 1 THEN <<p.name[Len(p.name)]>> ELSE <<>>
WithSuffix(p, sufs) ==
    [p EXCEPT !.name =
        (IF Len(p.name) > 1 THEN SubSeq(p.name, 1, Len(p.name) - 1)
                            ELSE p.name) \o sufs]
WithName(p, sufs) == [p EXCEPT !.name = p.name \o sufs]

\* ".ttl" in [s.lower() for s in path.suffixes]
HasTtl(p) == \E i \in 1..Len(Suffixes(p)) : Suffixes(p)[i] = ".ttl"

SeqToSet(seq) == {seq[i] : i \in 1..Len(seq)}

\* The position of x in seq (0 when absent).
IndexOf(seq, x) ==
    IF \E i \in 1..Len(seq) : seq[i] = x
    THEN CHOOSE i \in 1..Len(seq) :
            seq[i] = x /\ \A j \in 1..(i - 1) : seq[j] # x
    ELSE 0

RECURSIVE UniqueFrom(_, _, _)
UniqueFrom(seq, i, acc) ==
    IF i > Len(seq) THEN acc
    ELSE UniqueFrom(seq, i + 1,
            IF \E j \in 1..Len(acc) : acc[j] = seq[i]
            THEN acc ELSE Append(acc, seq[i]))

\* Lines 56-63: uniqueness, first occurrence kept, order preserved.
Dedupe(seq) == UniqueFrom(seq, 1, <<>>)

NoFiles == [x \in {} |-> [long |-> FALSE, bad |-> FALSE, head |-> {}]]

(***************************************************************************)
(* The sanitizer steps. An outcome is what step.process(candidate) did:    *)
(* kind "ok" with the returned candidates, kind "skip" (SkipSanitizer),    *)
(* or kind "fail" (another exception) with the candidates it had yielded   *)
(* before raising; written are the files it created.                       *)
(***************************************************************************)
DefaultSteps == <<"robot", "literal-truncation", "language-tag-fix">>

\* Steps a caller may register with add_step: one that returns no candidate
\* and one that returns only a derived file (the default steps already
\* return the derived files followed by their input).
CustomSteps == {"custom-drop", "custom-replace"}

Skip == [kind |-> "skip", out |-> <<>>, written |-> NoFiles]
Fail(partial, written) == [kind |-> "fail", out |-> partial, written |-> written]
Ok(out, written) == [kind |-> "ok", out |-> out, written |-> written]

ConvertedTtl(path) == WithSuffix(path, Suffix(path) \o <<".robot", ".ttl">>)
RepairedTtl(path) == WithSuffix(ConvertedTtl(path), <<".repaired", ".ttl">>)
RdfXmlPath(path) == WithSuffix(path, Suffix(path) \o <<".robot", ".rdf">>)

RobotChoices ==
    [cfg : {"disabled", "no_jar_path", "jar_missing", "enabled"},
     conv : {"ok", "left", "none"},  \* convert: added / file left behind / no file
     rep : BOOLEAN,                  \* repair wrote repaired_ttl
     rdf : BOOLEAN,                  \* convert --format rdfxml wrote rdfxml_path
     crash : BOOLEAN,                \* no java runtime, or an unexpected error
     keep : BOOLEAN]                 \* the produced files keep the input's
                                     \* long literals and language tags

\* RobotSanitizerStep.process
RobotProcess(path, content, ch) ==
    IF ch.cfg # "enabled" \/ ch.crash THEN Skip
    ELSE
      LET convExists == ch.conv \in {"ok", "left"}
          ttl == [long |-> ch.keep /\ content.long,
                  bad |-> ch.keep /\ content.bad, head |-> {"prefix"}]
          xml == [ttl EXCEPT !.head = {"xml"}]
          g1 == IF ch.conv = "ok" THEN <<ConvertedTtl(path)>> ELSE <<>>
          g2 == IF convExists /\ ch.rep THEN <<RepairedTtl(path)>> \o g1 ELSE g1
          g3 == IF ch.rdf THEN <<RdfXmlPath(path)>> \o g2 ELSE g2
          w1 == IF convExists THEN ConvertedTtl(path) :> ttl ELSE NoFiles
          w2 == IF convExists /\ ch.rep THEN RepairedTtl(path) :> ttl ELSE NoFiles
          w3 == IF ch.rdf THEN RdfXmlPath(path) :> xml ELSE NoFiles
      IN IF g3 # <<>> THEN Ok(g3 \o <<path>>, w1 @@ w2 @@ w3)
         ELSE [Skip EXCEPT !.written = w1 @@ w2 @@ w3]

LiteralTruncationOriginalFirst(path, content) ==
    IF ~HasTtl(path) \/ ~content.long THEN Skip
    ELSE Ok(<<path, WithName(path, <<".literal">>)>>,
            WithName(path, <<".literal">>) :> [content EXCEPT !.long = FALSE])

\* A truncation that rewrites the file it was given.
LiteralTruncationInPlace(path, content) ==
    IF ~HasTtl(path) \/ ~content.long THEN Skip
    ELSE Ok(<<path>>, path :> [content EXCEPT !.long = FALSE])

\* LiteralTruncationStep.process
LiteralTruncationProcess(path, content) ==
    IF ~HasTtl(path) THEN Skip
    ELSE IF ~content.long THEN Skip       \* text == original_text
    ELSE Ok(<<WithName(path, <<".literal">>), path>>,
            WithName(path, <<".literal">>) :> [content EXCEPT !.long = FALSE])

\* LanguageTagFixStep.process
LanguageTagFixProcess(path, content) ==
    IF ~HasTtl(path) THEN Skip
    ELSE IF ~content.bad THEN Skip        \* text == original_text
    ELSE Ok(<<WithName(path, <<".langfix">>), path>>,
            WithName(path, <<".langfix">>) :> [content EXCEPT !.bad = FALSE])

\* A step registered with add_step.
CustomProcess(step, path, content) ==
    LET v == WithName(path, <<".custom">>)
    IN CASE step = "custom-drop" -> Ok(<<>>, NoFiles)
         [] OTHER -> Ok(<<v>>, v :> content)

\* Every outcome step.process(path) can have, an unexpected exception included.
StepOutcomes(step, path, content) ==
    CASE step = "robot" -> {RobotProcess(path, content, ch) : ch \in RobotChoices}
      [] step = "literal-truncation" ->
            {LiteralTruncationProcess(path, content)}
            \cup (IF HasTtl(path) THEN {Fail(<<>>, NoFiles)} ELSE {})
      [] step = "language-tag-fix" ->
            {LanguageTagFixProcess(path, content)}
            \cup (IF HasTtl(path) THEN {Fail(<<>>, NoFiles)} ELSE {})
      [] OTHER ->
            LET v == WithName(path, <<".custom">>)
            IN {CustomProcess(step, path, content), Fail(<<v>>, v :> content)}

OnStepExceptionKeepPartial(new_candidates, candidate, partial) ==
    new_candidates \o partial \o <<candidate>>

\* Lines 51-53: except Exception: new_candidates.append(candidate)
OnStepException(new_candidates, candidate, partial) ==
    Append(new_candidates, candidate)

\* Lines 46-53: what one step.process(candidate) call adds to new_candidates.
Collect(new_candidates, candidate, o) ==
    CASE o.kind = "ok" -> new_candidates \o o.out
      [] o.kind = "skip" -> Append(new_candidates, candidate)
      [] OTHER -> OnStepException(new_candidates, candidate, o.out)

\* Lines 43-63: move to the next candidate, the next step, or return. A
\* step given an empty candidate list processes nothing and leaves it empty,
\* so the remaining steps are passed over at once.
Advance(s, new) ==
    IF s.ci < Len(s.candidates)
    THEN [s EXCEPT !.ci = s.ci + 1, !.new_candidates = new]
    ELSE IF s.si < Len(s.steps) /\ new # <<>>
    THEN [s EXCEPT !.si = s.si + 1, !.ci = 1,
                   !.candidates = new, !.new_candidates = <<>>]
    ELSE [s EXCEPT !.pc = "done", !.candidates = new,
                   !.new_candidates = <<>>, !.result = Dedupe(new)]

SanIdle ==
    [pc |-> "idle", source |-> UploadPath(<<"onto">>), steps |-> DefaultSteps,
     si |-> 0, ci |-> 0, candidates |-> <<>>, new_candidates |-> <<>>,
     result |-> <<>>]

SanInit ==
    /\ san = SanIdle
    /\ files = NoFiles
    /\ san_log = <<>>
    /\ faults = 0

\* The steps registered with add_step before sanitize is called: none, one
\* or two of the custom steps, in the order of registration.
ExtraStepLists ==
    {<<>>} \cup {<<a>> : a \in CustomSteps}
           \cup {<<a, b>> : a \in CustomSteps, b \in CustomSteps}

\* The working copy of the source: self.workspace / source_path.name
WorkingPath == WorkPath(san.source.name)

\* sanitize(source_path), lines 40-41: _copy_to_workspace and the first
\* candidate list. An unreadable source makes read_bytes raise.
CopyToWorkspace(name, content, readable, extras) ==
    /\ san.pc = "idle"
    /\ IF readable
       THEN /\ files' = (UploadPath(name) :> content) @@ (WorkPath(name) :> content)
            /\ san' = [SanIdle EXCEPT !.pc = "steps", !.source = UploadPath(name),
                                      !.steps = DefaultSteps \o extras,
                                      !.si = 1, !.ci = 1,
                                      !.candidates = <<WorkPath(name)>>]
       ELSE /\ files' = files
            /\ san' = [SanIdle EXCEPT !.pc = "raised", !.source = UploadPath(name),
                                      !.steps = DefaultSteps \o extras]
    /\ UNCHANGED <<san_log, faults>>
    /\ UNCHANGED <<ingestVars, queryVars, syncVars, textVars, apiVars>>

\* sanitizer.sanitize(source_path) called on its own, with the steps
\* registered so far.
SanitizeCall(name, content, readable, extras) ==
    /\ load.pc = "idle"
    /\ CopyToWorkspace(name, content, readable, extras)
    /\ UNCHANGED loadVars

\* Lines 43-63: one step.process(candidate) call with its try/except, and
\* the loop bookkeeping that follows it.
SanitizeStep ==
    /\ san.pc = "steps"
    /\ LET step == san.steps[san.si]
           c == san.candidates[san.ci]
       IN \E o \in StepOutcomes(step, c, files[c]) :
            /\ (o.kind = "fail") => faults < MaxStepFaults
            /\ faults' = IF o.kind = "fail" THEN faults + 1 ELSE faults
            /\ files' = o.written @@ files
            /\ san_log' = Append(san_log,
                    [si |-> san.si, step |-> step, cand |-> c,
                     kind |-> o.kind, out |-> o.out])
            /\ san' = Advance(san, Collect(san.new_candidates, c, o))
    /\ UNCHANGED <<ingestVars, loadVars, queryVars, syncVars, textVars, apiVars>>

SanitizeNext ==
    \/ \E name \in SanitizeNames, content \in SanitizeContents,
          readable \in BOOLEAN, extras \in ExtraStepLists :
            SanitizeCall(name, content, readable, extras)
    \/ SanitizeStep

(***************************************************************************)
(* _load_graph_with_fallbacks and _detect_candidate_formats.               *)
(***************************************************************************)
\* The inputs of the loader runs.
LoadContents == [long : BOOLEAN, bad : {FALSE}, head : Heads]

\* rdflib.util.guess_format(path.name): by the last suffix, "" when unknown.
GuessFormat(p) ==
    LET ext == IF Len(p.name) > 1 THEN p.name[Len(p.name)] ELSE ""
    IN CASE ext = ".ttl" -> "turtle"
         [] ext \in {".owl", ".rdf", ".xml"} -> "xml"
         [] ext = ".n3" -> "n3"
         [] ext = ".nt" -> "nt"
         [] ext = ".trig" -> "trig"
         [] ext \in {".json", ".jsonld"} -> "json-ld"
         [] OTHER -> ""

FallbackFormats == <<"xml", "turtle", "n3", "nt", "trig">>

\* A detection that returns the deduplicated list as it is.
DetectCandidateFormatsKeepXml(p, fs) ==
    LET guessed == GuessFormat(p)
        head == IF p \in DOMAIN fs THEN fs[p].head ELSE {}
    IN Dedupe((IF guessed # "" THEN <<guessed>> ELSE <<>>)
              \o (IF "xml" \in head THEN <<"xml">> ELSE <<>>)
              \o (IF "prefix" \in head THEN <<"turtle">> ELSE <<>>)
              \o (IF "jsonld" \in head THEN <<"json-ld">> ELSE <<>>)
              \o FallbackFormats)

\* _detect_candidate_formats(path); a file that cannot be read has head "".
DetectCandidateFormats(p, fs) ==
    LET guessed == GuessFormat(p)
        head == IF p \in DOMAIN fs THEN fs[p].head ELSE {}
        candidate_formats ==
            (IF guessed # "" THEN <<guessed>> ELSE <<>>)
            \o (IF "xml" \in head THEN <<"xml">> ELSE <<>>)
            \o (IF "prefix" \in head THEN <<"turtle">> ELSE <<>>)
            \o (IF "jsonld" \in head THEN <<"json-ld">> ELSE <<>>)
            \o FallbackFormats
        ordered_formats == Dedupe(candidate_formats)
    IN IF "turtle" \in SeqToSet(ordered_formats) /\ HasTtl(p)
          /\ "xml" \in SeqToSet(ordered_formats)
       THEN SelectSeq(ordered_formats, LAMBDA fmt : fmt # "xml")
       ELSE ordered_formats

\* Attempts in which the format of the fast path is not tried again.
PlanWithoutRepeat(p, fs) ==
    IF HasTtl(p)
    THEN <<"turtle">> \o SelectSeq(DetectCandidateFormats(p, fs),
                                   LAMBDA fmt : fmt # "turtle")
    ELSE DetectCandidateFormats(p, fs)

\* The parse attempts made on one candidate, in order: the Turtle fast path
\* (lines 30-39) for a name with a .ttl suffix, then the detected formats.
Plan(p, fs) ==
    (IF HasTtl(p) THEN <<"turtle">> ELSE <<>>) \o DetectCandidateFormats(p, fs)

NoException == [kind |-> "none"]
ParseError(c, fmt, n) == [kind |-> "parse", cand |-> c, fmt |-> fmt, n |-> n]

LoadIdle ==
    [pc |-> "idle", ci |-> 0, fi |-> 0, plan |-> <<>>, plans |-> <<>>,
     last_exception |-> NoException, exc |-> NoException,
     cleanup |-> "not_called",
     graph |-> [cand |-> UploadPath(<<"onto">>), fmt |-> ""]]

LoadInit ==
    /\ load = LoadIdle
    /\ attempts = <<>>

\* A cleanup that leaves the workspace in place.
CleanupNothing(fs, removed) == fs

\* OntologySanitizer.cleanup: rmtree(workspace); a failure is only logged.
Cleanup(fs, removed) ==
    IF removed
    THEN [q \in {x \in DOMAIN fs : x.dir # "workspace"} |-> fs[q]]
    ELSE fs

KeepFirstException(last_exception, exc) ==
    IF last_exception.kind = "none" THEN exc ELSE last_exception

\* Lines 37-38 and 50-51: last_exception = exc
RecordException(last_exception, exc) == exc

\* The loops of lines 28-62 after a failed attempt: the next format, the
\* next candidate, or (all candidates done) raise last_exception.
LoadAdvance(l, candidate_paths, fs) ==
    IF l.fi < Len(l.plan)
    THEN [l EXCEPT !.fi = l.fi + 1]
    ELSE IF l.ci < Len(candidate_paths)
    THEN LET next == candidate_paths[l.ci + 1]
         IN [l EXCEPT !.ci = l.ci + 1, !.fi = 1, !.plan = Plan(next, fs),
                      !.plans = Append(l.plans,
                                  [cand |-> next, formats |-> Plan(next, fs),
                                   detected |-> DetectCandidateFormats(next, fs)])]
    ELSE [l EXCEPT !.pc = "raised", !.exc = l.last_exception]

ContinueAfterSuccess(l, c, fmt, candidate_paths, fs) ==
    LoadAdvance([l EXCEPT !.graph = [cand |-> c, fmt |-> fmt]],
                candidate_paths, fs)

\* Lines 36 and 49: return g
OnParseSuccess(l, c, fmt, candidate_paths, fs) ==
    [l EXCEPT !.pc = "returned", !.graph = [cand |-> c, fmt |-> fmt]]

\* Line 64: finally: sanitizer.cleanup(), on the way out of the function.
Finally(l, removed) ==
    IF l.pc \in {"returned", "raised"}
    THEN [l EXCEPT !.cleanup = IF removed THEN "removed" ELSE "failed"]
    ELSE l

\* Line 23-25: a sanitizer with the default steps; sanitize(path).
LoadCall(name, content, readable) ==
    /\ load.pc = "idle"
    /\ CopyToWorkspace(name, content, readable, <<>>)
    /\ load' = [load EXCEPT !.pc = "sanitize"]
    /\ UNCHANGED attempts

\* sanitize has returned or raised: enter the candidate loop (line 28),
\* raise ValueError when there is no candidate (line 62), or let the
\* exception of sanitize through; finally: cleanup (line 64).
LoadEnter ==
    /\ load.pc = "sanitize"
    /\ san.pc \in {"done", "raised"}
    /\ \E removed \in BOOLEAN :
        IF san.pc = "raised"
        THEN /\ load' = Finally([load EXCEPT !.pc = "raised",
                                             !.exc = [kind |-> "os"]], removed)
             /\ files' = Cleanup(files, removed)
        ELSE IF san.result = <<>>
        THEN /\ load' = Finally([load EXCEPT !.pc = "raised",
                                             !.exc = [kind |-> "value"]], removed)
             /\ files' = Cleanup(files, removed)
        ELSE /\ load' = [load EXCEPT
                    !.pc = "parsing", !.ci = 1, !.fi = 1,
                    !.plan = Plan(san.result[1], files),
                    !.plans = <<[cand |-> san.result[1],
                                 formats |-> Plan(san.result[1], files),
                                 detected |->
                                    DetectCandidateFormats(san.result[1], files)]>>]
             /\ files' = files
    /\ UNCHANGED <<san, san_log, faults, attempts, ingestVars, queryVars, syncVars, textVars, apiVars>>

\* Lines 31-39 and 44-52: one g.parse(candidate, format) attempt.
LoadAttempt ==
    /\ load.pc = "parsing"
    /\ LET c == san.result[load.ci]
           fmt == load.plan[load.fi]
           n == Len(attempts) + 1
       IN \E parsed \in BOOLEAN, removed \in BOOLEAN :
            /\ attempts' = Append(attempts,
                    [cand |-> c, fmt |-> fmt, ok |-> parsed, n |-> n])
            /\ load' = Finally(
                 IF parsed
                 THEN OnParseSuccess(load, c, fmt, san.result, files)
                 ELSE LoadAdvance(
                        [load EXCEPT !.last_exception =
                            RecordException(load.last_exception,
                                            ParseError(c, fmt, n))],
                        san.result, files), removed)
            /\ files' = IF load'.pc \in {"returned", "raised"}
                        THEN Cleanup(files, removed) ELSE files
    /\ UNCHANGED <<san, san_log, faults, ingestVars, queryVars, syncVars, textVars, apiVars>>

LoadNext ==
    \/ \E name \in SourceNames, content \in LoadContents, readable \in BOOLEAN :
            LoadCall(name, content, readable)
    \/ SanitizeStep
    \/ LoadEnter
    \/ LoadAttempt

(***************************************************************************)
(* RetrievalService: answer_query and its three stages. A provider call    *)
(* either raises or returns a value; a stage is a function that may let    *)
(* an exception through (exc) or return (value).                           *)
(***************************************************************************)
top_k == 5

NotFoundAnswer == [kind |-> "not_found"]

Raised == [exc |-> TRUE, value |-> <<>>]
Returned(v) == [exc |-> FALSE, value |-> v]

\* An object as a search returns it: only the properties the query names.
SearchProperties == {"content", "ontology_id", "version"}
SearchHit(i) ==
    [f \in SearchProperties |-> DataObject(1, "X", "v1", i)[f]]

\* What the search provider can answer: an exception, a response without
\* a data section, a data section whose class entry is null, or the list
\* of the n best matching objects.
SearchOutcomes ==
    {[kind |-> "raise", n |-> 0], [kind |-> "no_data", n |-> 0],
     [kind |-> "null", n |-> 0]}
    \cup {[kind |-> "hits", n |-> n] : n \in 0..MaxHits}

\* _hybrid_search
HybridSearch(o) ==
    CASE o.kind = "raise" -> Returned(<<>>)           \* except: return []
      [] o.kind = "hits" -> Returned([i \in 1..o.n |-> SearchHit(i - 1)])
      [] OTHER -> Returned(<<>>)   \* no data section, or a null class entry

\* What the rerank provider can answer: an exception, or results whose
\* (0-based) indexes into the n documents have one of these shapes.
RerankOutcomes ==
    {[kind |-> "raise", shape |-> ""]}
    \cup {[kind |-> "results", shape |-> sh] :
            sh \in {"same_order", "reversed", "first_only", "first_twice",
                    "beyond_end", "none"}}

ResultIndexes(shape, n) ==
    CASE shape = "same_order" -> [i \in 1..n |-> i - 1]
      [] shape = "reversed" -> [i \in 1..n |-> n - i]
      [] shape = "first_only" -> <<0>>
      [] shape = "first_twice" -> <<0, 0>>
      [] shape = "beyond_end" -> <<n>>
      [] OTHER -> <<>>

RerankUncaught(configured, documents, o) ==
    LET index == ResultIndexes(o.shape, Len(documents))
    IN IF ~configured THEN Returned(documents)
       ELSE IF o.kind = "raise"
               \/ \E i \in 1..Len(index) : index[i] >= Len(documents)
       THEN Raised
       ELSE Returned([i \in 1..Len(index) |-> documents[index[i] + 1]])

\* _rerank: documents[result.index] raises IndexError inside the try.
Rerank(configured, documents, o) ==
    LET index == ResultIndexes(o.shape, Len(documents))
    IN IF ~configured THEN Returned(documents)
       ELSE IF o.kind = "raise"
               \/ \E i \in 1..Len(index) : index[i] >= Len(documents)
       THEN Returned(documents)               \* except: return documents
       ELSE Returned([i \in 1..Len(index) |-> documents[index[i] + 1]])

\* str.strip() on a string given as its sequence of characters.
Whitespace == {" ", "\n"}
RECURSIVE LStrip(_)
LStrip(t) == IF t # <<>> /\ Head(t) \in Whitespace THEN LStrip(Tail(t)) ELSE t
RECURSIVE RStrip(_)
RStrip(t) ==
    IF t # <<>> /\ t[Len(t)] \in Whitespace
    THEN RStrip(SubSeq(t, 1, Len(t) - 1)) ELSE t
Strip(t) == LStrip(RStrip(t))

\* What the generation provider can answer: an exception, a response
\* without a 'text' entry, or a text.
GenerationOutcomes ==
    {[kind |-> "raise", text |-> <<>>], [kind |-> "no_text", text |-> <<>>]}
    \cup {[kind |-> "text", text |-> t] :
            t \in {<<"a">>, <<" ", "a", "b", "\n">>, <<" ">>}}

\* The fallback text: a fixed opening, context_str, a fixed disclaimer.
FallbackAnswer(top_results) ==
    [kind |-> "fallback",
     context |-> [i \in 1..Len(top_results) |-> top_results[i].content]]

GenerateAnswerNoFallback(configured, top_results, o) ==
    IF top_results = <<>> THEN Returned(NotFoundAnswer)
    ELSE IF configured
    THEN IF o.kind = "text"
         THEN Returned([kind |-> "llm", text |-> Strip(o.text)])
         ELSE Returned(NotFoundAnswer)
    ELSE Returned(FallbackAnswer(top_results))

\* _generate_answer
GenerateAnswer(configured, top_results, o) ==
    IF top_results = <<>> THEN Returned(NotFoundAnswer)
    ELSE IF configured /\ o.kind = "text"
    THEN Returned([kind |-> "llm", text |-> Strip(o.text)])
    ELSE Returned(FallbackAnswer(top_results))

\* res.get('metadata', {}) and the SourceChunk built from one result.
EmptyDict == [x \in {} |-> ""]
SourceChunk(res) ==
    [ontology_id |-> res.ontology_id, version |-> res.version,
     content |-> res.content,
     metadata |-> IF "metadata" \in DOMAIN res THEN res.metadata ELSE EmptyDict]

QueryResponse(answer, source_chunks) ==
    [answer |-> answer, sources |-> source_chunks]

NoQuery ==
    [pc |-> "new", cohere_client |-> FALSE, llm_chain |-> FALSE,
     search_outcome |-> "", rerank_outcome |-> "", generation_outcome |-> "",
     generation_text |-> <<>>,
     search_results |-> <<>>, reranked_results |-> <<>>, top_results |-> <<>>,
     response |-> QueryResponse(NotFoundAnswer, <<>>)]

QueryInit ==
    /\ query = NoQuery
    /\ calls = <<>>

NeverEmpty(search_results) == FALSE

\* Line 77: if not search_results
NoResults(search_results) == search_results = <<>>

\* RetrievalService(): a failure of the Weaviate client is re-raised, the
\* rerank and generation clients are left unset when they cannot be built.
NewRetrievalService(weaviate, cohere, llm) ==
    /\ query.pc = "new"
    /\ query' = [query EXCEPT !.pc = IF weaviate THEN "idle" ELSE "init_raised",
                              !.cohere_client = weaviate /\ cohere,
                              !.llm_chain = weaviate /\ llm]
    /\ UNCHANGED <<calls, ingestVars, sanVars, loadVars, syncVars, textVars, apiVars>>

\* answer_query, lines 74-78: the search and the early return.
AnswerQuerySearch(o) ==
    /\ query.pc = "idle"
    /\ calls' = Append(calls, "search")
    /\ LET r == HybridSearch(o)
       IN query' =
            IF r.exc THEN [query EXCEPT !.pc = "raised", !.search_outcome = o.kind]
            ELSE IF NoResults(r.value)
            THEN [query EXCEPT !.pc = "returned", !.search_outcome = o.kind,
                     !.search_results = r.value,
                     !.response = QueryResponse(NotFoundAnswer, <<>>)]
            ELSE [query EXCEPT !.pc = "searched", !.search_outcome = o.kind,
                     !.search_results = r.value]
    /\ UNCHANGED <<ingestVars, sanVars, loadVars, syncVars, textVars, apiVars>>

\* answer_query, lines 80-84: rerank and the cut to top_k.
AnswerQueryRerank(o) ==
    /\ query.pc = "searched"
    /\ calls' = IF query.cohere_client THEN Append(calls, "rerank") ELSE calls
    /\ LET r == Rerank(query.cohere_client, query.search_results, o)
       IN query' =
            IF r.exc THEN [query EXCEPT !.pc = "raised", !.rerank_outcome = o.kind]
            ELSE [query EXCEPT !.pc = "reranked",
                     !.rerank_outcome =
                        IF ~query.cohere_client THEN "unconfigured"
                        ELSE IF o.kind = "raise" THEN "raise" ELSE o.shape,
                     !.reranked_results = r.value,
                     !.top_results =
                        SubSeq(r.value, 1,
                               IF Len(r.value) < top_k THEN Len(r.value) ELSE top_k)]
    /\ UNCHANGED <<ingestVars, sanVars, loadVars, syncVars, textVars, apiVars>>

\* answer_query, lines 86-100: the answer and the response.
AnswerQueryGenerate(o) ==
    /\ query.pc = "reranked"
    /\ LET called == query.top_results # <<>> /\ query.llm_chain
           r == GenerateAnswer(query.llm_chain, query.top_results, o)
       IN /\ calls' = IF called THEN Append(calls, "generate") ELSE calls
          /\ query' =
               IF r.exc
               THEN [query EXCEPT !.pc = "raised", !.generation_outcome = o.kind]
               ELSE [query EXCEPT !.pc = "returned",
                        !.generation_outcome =
                           IF called THEN o.kind
                           ELSE IF query.llm_chain THEN "not_called"
                           ELSE "unconfigured",
                        !.generation_text = IF called THEN o.text ELSE <<>>,
                        !.response = QueryResponse(r.value,
                           [i \in 1..Len(query.top_results) |->
                               SourceChunk(query.top_results[i])])]
    /\ UNCHANGED <<ingestVars, sanVars, loadVars, syncVars, textVars, apiVars>>

QueryNext ==
    \/ \E weaviate \in BOOLEAN, cohere \in BOOLEAN, llm \in BOOLEAN :
            NewRetrievalService(weaviate, cohere, llm)
    \/ \E o \in SearchOutcomes : AnswerQuerySearch(o)
    \/ \E o \in RerankOutcomes : AnswerQueryRerank(o)
    \/ \E o \in GenerationOutcomes : AnswerQueryGenerate(o)

(***************************************************************************)
(* OntologySyncService: one sync cycle at a time. The catalog lists one    *)
(* record per acronym, in a fixed order, with the version of its latest    *)
(* submission; the store is the one the ingestion tasks write to.          *)
(***************************************************************************)
CatalogVersions == <<"v1", "v2">>
CatalogOrder == <<"X", "Y">>

\* _get_current_version returns None
None == "None"

\* What the store can answer to "one object of this ontology, its version":
\* an exception, or the version of any one matching object (limit 1).
VersionQueryOutcomes(s, o) ==
    {[ok |-> FALSE, version |-> None]}
    \cup (IF RecordsOf(s, o) = {}
          THEN {[ok |-> TRUE, version |-> None]}
          ELSE {[ok |-> TRUE, version |-> x.version] : x \in RecordsOf(s, o)})

\* A decision that never dispatches in update mode.
IsUpdateNever(existing_version) == FALSE

\* A lookup that answers a failed query with the first catalog version.
GetCurrentVersionAssumeIndexed(outcome) ==
    IF outcome.ok THEN outcome.version ELSE CatalogVersions[1]

\* _get_current_version: None when the query raises or nothing matches.
GetCurrentVersion(outcome) == IF outcome.ok THEN outcome.version ELSE None

\* Line 93: is_update = existing_version is not None
IsUpdate(existing_version) == existing_version # None

\* enabled, api_key and fetch are the settings and the catalog's answer of
\* the cycle; touched names the collaborators the cycle has called.
NoSync ==
    [pc |-> "idle", todo |-> <<>>, queued_jobs |-> <<>>,
     result |-> [status |-> "none"],
     enabled |-> TRUE, api_key |-> TRUE, fetch |-> "none", touched |-> {}]

\* A configuration check that does not look at the API key.
SyncPrecheckNoKey(enabled, api_key) ==
    IF ~enabled THEN "disabled" ELSE "go"

\* Lines 52-58: the two configuration checks, in this order.
SyncPrecheck(enabled, api_key) ==
    IF ~enabled THEN "disabled"
    ELSE IF ~api_key THEN "missing_api_key"
    ELSE "go"

\* A listing failure that is not caught.
OnFetchFailureRaise(s) == [s EXCEPT !.pc = "raised"]

\* Lines 62-64: except Exception: return error / fetch_failed.
OnFetchFailure(s) ==
    [s EXCEPT !.pc = "returned",
              !.result = [status |-> "error", reason |-> "fetch_failed"]]

SyncInit ==
    /\ catalog = [o \in Ontologies |-> CatalogVersions[1]]
    /\ sync = NoSync
    /\ sync_log = <<>>

\* The catalog publishes the next submission of an ontology (between two
\* sync cycles: a cycle works on the listing it fetched at its start).
CatalogPublish(o) ==
    /\ sync.pc # "processing"
    /\ catalog[o] = CatalogVersions[1]
    /\ catalog' = [catalog EXCEPT ![o] = CatalogVersions[2]]
    /\ UNCHANGED <<sync, sync_log, ingestVars, sanVars, loadVars, queryVars, textVars, apiVars>>

\* sync(), lines 52-70: the configuration checks, the catalog listing and
\* create_schema_if_not_exists (which is outside any try block).
SyncStart(enabled, api_key, fetch, schema_ok) ==
    /\ sync.pc \in {"idle", "returned"}
    /\ LET pre == SyncPrecheck(enabled, api_key)
           s == [NoSync EXCEPT !.enabled = enabled, !.api_key = api_key]
           f == [s EXCEPT !.fetch = fetch, !.touched = {"catalog"}]
           g == [f EXCEPT !.touched = {"catalog", "store"}]
           records == IF fetch = "records"
                      THEN [i \in 1..Len(CatalogOrder) |->
                              [acronym |-> CatalogOrder[i],
                               version |-> catalog[CatalogOrder[i]]]]
                      ELSE <<>>
       IN sync' =
            IF pre # "go"
            THEN [s EXCEPT !.pc = "returned",
                     !.result = [status |-> "skipped", reason |-> pre]]
            ELSE IF fetch = "raise"
            THEN OnFetchFailure(f)
            ELSE IF records = <<>>
            THEN [f EXCEPT !.pc = "returned",
                     !.result = [status |-> "ok", queued |-> 0]]
            ELSE IF ~schema_ok
            THEN [g EXCEPT !.pc = "raised"]
            ELSE [g EXCEPT !.pc = "processing", !.todo = records]
    /\ sync_log' = <<>>
    /\ UNCHANGED <<catalog, ingestVars, sanVars, loadVars, queryVars, textVars, apiVars>>

\* A loop that ends at the first record whose processing raised.
RestAfterStop(todo, raised) == IF raised THEN <<>> ELSE Tail(todo)

\* Lines 73-79: the except clause of the loop body logs the failure and the
\* loop goes on with the next record.
RestAfter(todo, raised) == Tail(todo)

\* One iteration of the loop of lines 73-79: _process_ontology(ontology)
\* inside its try/except. q is the answer of the store, download and
\* dispatch tell whether those calls return (when they are not reached, or
\* not reached after a failed download, they are fixed to TRUE), k and n
\* are the number of the task dispatched and the number of chunks the
\* downloaded file splits into.
SyncProcess(q, download, dispatch, k, n) ==
    /\ sync.pc = "processing"
    /\ sync.todo # <<>>
    /\ LET ontology == Head(sync.todo)
           existing_version == GetCurrentVersion(q)
           is_update == IsUpdate(existing_version)
           wanted == existing_version # ontology.version
           dispatched == wanted /\ download /\ dispatch
           entry == [acronym |-> ontology.acronym,
                     version |-> ontology.version,
                     indexed |-> {x.version : x \in RecordsOf(store, ontology.acronym)},
                     query_ok |-> q.ok, existing_version |-> existing_version,
                     raised |-> wanted /\ ~dispatched,
                     dispatched |-> dispatched, is_update |-> is_update,
                     task |-> IF dispatched THEN k ELSE 0]
       IN /\ q \in VersionQueryOutcomes(store, ontology.acronym)
          /\ ~wanted => download /\ dispatch
          /\ ~download => dispatch
          /\ sync_log' = Append(sync_log, entry)
          /\ sync' = [sync EXCEPT
                !.todo = RestAfter(sync.todo, wanted /\ ~dispatched),
                !.touched = sync.touched \cup {"store"}
                    \cup (IF wanted /\ download /\ dispatch
                          THEN {"dispatcher"} ELSE {}),
                !.queued_jobs =
                    IF dispatched
                    THEN Append(sync.queued_jobs,
                           [ontology_id |-> ontology.acronym,
                            version |-> ontology.version,
                            is_update |-> is_update, task_id |-> TaskId(k)])
                    ELSE sync.queued_jobs]
          /\ IF dispatched
             THEN Enqueue(k, ontology.acronym, ontology.version, is_update, n)
             ELSE /\ UNCHANGED <<task, disturbed>>
                  /\ k = 1 /\ n = 0
    /\ UNCHANGED <<catalog, store, failures, sanVars, loadVars, queryVars, textVars, apiVars>>

\* Lines 81-82: the loop is over; return the count of queued jobs.
SyncReturn ==
    /\ sync.pc = "processing"
    /\ sync.todo = <<>>
    /\ sync' = [sync EXCEPT !.pc = "returned",
                   !.result = [status |-> "ok",
                               queued |-> Len(sync.queued_jobs),
                               jobs |-> sync.queued_jobs]]
    /\ UNCHANGED <<catalog, sync_log, ingestVars, sanVars, loadVars, queryVars, textVars, apiVars>>

SyncQueryOutcomes ==
    [ok : BOOLEAN, version : {None} \cup SeqToSet(CatalogVersions)]

\* The chunk counts of the files the catalog serves: the decisions of sync
\* depend only on whether an ontology has records in the store.
SyncChunkCounts == {0, 1}

SyncNext ==
    \/ \E o \in Ontologies : CatalogPublish(o)
    \/ \E enabled \in BOOLEAN, api_key \in BOOLEAN,
          fetch \in {"raise", "empty", "records"}, schema_ok \in BOOLEAN :
            SyncStart(enabled, api_key, fetch, schema_ok)
    \/ \E q \in SyncQueryOutcomes, download \in BOOLEAN, dispatch \in BOOLEAN,
          k \in TaskNums, n \in SyncChunkCounts :
            SyncProcess(q, download, dispatch, k, n)
    \/ SyncReturn
    \/ \E k \in TaskNums : TaskStart(k)
    \/ \E k \in TaskNums : TaskLoad(k)
    \/ \E k \in TaskNums : TaskUpsert(k)
    \/ \E k \in TaskNums : TaskFinish(k)

\* The periodic schedule when ingestions are quick and the store is
\* healthy: a cycle starts only when every task dispatched earlier has
\* completed, and every version query is answered.
SteadyStart(enabled, api_key, fetch, schema_ok) ==
    /\ \A k \in TaskNums : task[k].pc \notin {"queued"} \cup Running
    /\ SyncStart(enabled, api_key, fetch, schema_ok)

SteadyNext ==
    \/ \E o \in Ontologies : CatalogPublish(o)
    \/ \E enabled \in BOOLEAN, api_key \in BOOLEAN,
          fetch \in {"raise", "empty", "records"}, schema_ok \in BOOLEAN :
            SteadyStart(enabled, api_key, fetch, schema_ok)
    \/ \E q \in {x \in SyncQueryOutcomes : x.ok}, download \in BOOLEAN,
          dispatch \in BOOLEAN, k \in TaskNums, n \in SyncChunkCounts :
            SyncProcess(q, download, dispatch, k, n)
    \/ SyncReturn
    \/ \E k \in TaskNums : TaskStart(k)
    \/ \E k \in TaskNums : TaskLoad(k)
    \/ \E k \in TaskNums : TaskUpsert(k)
    \/ \E k \in TaskNums : TaskFinish(k)

(***************************************************************************)
(* The text transformations of the sanitizer steps. A text is a sequence   *)
(* of characters; a letter stands for its character class.                 *)
(***************************************************************************)
Letters == {"a", "e", "n"}
Digits == {"1"}
WhitespaceChars == {" ", "\n"}

\* The largest e with seq[i..e] all in S (i - 1 when seq[i] is not in S).
RECURSIVE RunEnd(_, _, _)
RunEnd(seq, i, S) ==
    IF i <= Len(seq) /\ seq[i] \in S THEN RunEnd(seq, i + 1, S) ELSE i - 1

\* VALID_TAG.fullmatch(tag): ^[a-zA-Z]{1,8}(?:-[a-zA-Z0-9]{1,8})*$
RECURSIVE SubtagsMatch(_, _, _)
SubtagsMatch(tag, i, first) ==
    LET e == RunEnd(tag, i, IF first THEN Letters ELSE Letters \cup Digits)
        n == e - i + 1
    IN /\ n >= 1 /\ n <= 8
       /\ \/ e = Len(tag)
          \/ e < Len(tag) /\ tag[e + 1] = "-" /\ SubtagsMatch(tag, e + 2, FALSE)

ValidTag(tag) == SubtagsMatch(tag, 1, TRUE)

\* "([^"\\]|\\.)*": the index of the closing quote of a literal whose body
\* starts at j, 0 when the text ends first.
RECURSIVE CloseQuote(_, _)
CloseQuote(text, j) ==
    IF j > Len(text) THEN 0
    ELSE IF text[j] = "\"" THEN j
    ELSE IF text[j] = "\\"
    THEN (IF j + 1 <= Len(text) THEN CloseQuote(text, j + 2) ELSE 0)
    ELSE CloseQuote(text, j + 1)

\* The characters that end the tag group [^\s"<>;]+
TagStops == WhitespaceChars \cup {"\"", "<", ">", ";"}

RECURSIVE TagEnd(_, _)
TagEnd(text, j) ==
    IF j <= Len(text) /\ text[j] \notin TagStops THEN TagEnd(text, j + 1)
    ELSE j - 1

\* LITERAL_WITH_LANG.sub(replacer, text) from position i on: matches are
\* taken left to right and do not overlap.
RECURSIVE LangTagSub(_, _)
LangTagSub(text, i) ==
    IF i > Len(text) THEN <<>>
    ELSE LET c == IF text[i] = "\"" THEN CloseQuote(text, i + 1) ELSE 0
             e == IF c # 0 /\ c + 1 <= Len(text) /\ text[c + 1] = "@"
                  THEN TagEnd(text, c + 2) ELSE 0
         IN IF c # 0 /\ e >= c + 2
            THEN (IF ValidTag(SubSeq(text, c + 2, e))
                  THEN SubSeq(text, i, e)          \* return match.group(0)
                  ELSE SubSeq(text, i, c))         \* return literal
                 \o LangTagSub(text, e + 1)
            ELSE <<text[i]>> \o LangTagSub(text, i + 1)

\* The Turtle texts handed to the steps: one or two statements, each ending
\* in a literal with a language tag and what follows the tag in the file.
TagLiterals == {<<"\"", "a", "\"">>, <<"\"", "a", "\\", "\"", "\"">>}
Tags ==
    {[chars |-> <<"e", "n">>, valid |-> TRUE],
     [chars |-> <<"e", "n", "-", "1">>, valid |-> TRUE],
     [chars |-> <<"e", "_">>, valid |-> FALSE],
     [chars |-> <<"1", "e">>, valid |-> FALSE]}
Followers == {<<" ">>, <<" ", ".">>, <<".">>, <<",">>, <<";">>, <<")">>, <<"]">>}
TaggedParts == [lit : TagLiterals, tag : Tags, fol : Followers]

PartText(p) == p.lit \o <<"@">> \o p.tag.chars \o p.fol
RECURSIVE PartsText(_)
PartsText(parts) ==
    IF parts = <<>> THEN <<>> ELSE PartText(Head(parts)) \o PartsText(Tail(parts))

NoDoc == [pc |-> "idle", kind |-> "none", parts |-> <<>>, text |-> <<>>,
          output |-> <<>>]

TextInit == doc = NoDoc

\* A Turtle file with language-tagged literals is written, one statement
\* after the other (two at most).
WriteTagged(p) ==
    /\ \/ doc.pc = "idle"
       \/ doc.pc = "written" /\ doc.kind = "tagged" /\ Len(doc.parts) < 2
    /\ doc' = [doc EXCEPT !.pc = "written", !.kind = "tagged",
                          !.parts = Append(doc.parts, p),
                          !.text = PartsText(Append(doc.parts, p))]
    /\ UNCHANGED <<ingestVars, sanVars, loadVars, queryVars, syncVars, apiVars>>

\* LanguageTagFixStep.process, lines 236-245, on the text of the file.
LanguageTagFixText ==
    /\ doc.pc = "written"
    /\ doc.kind = "tagged"
    /\ doc' = [doc EXCEPT !.pc = "langfix", !.output = LangTagSub(doc.text, 1)]
    /\ UNCHANGED <<ingestVars, sanVars, loadVars, queryVars, syncVars, apiVars>>

\* placeholder = "[literal trimmed for sanitation]", taken as one character.
Placeholder == "[literal trimmed for sanitation]"

Repeat(c, n) == [i \in 1..n |-> c]

\* The first j >= i at which the delimiter d starts in text, 0 when none.
RECURSIVE FindFrom(_, _, _)
FindFrom(text, d, i) ==
    IF i + Len(d) - 1 > Len(text) THEN 0
    ELSE IF SubSeq(text, i, i + Len(d) - 1) = d THEN i
    ELSE FindFrom(text, d, i + 1)

\* replace_block(pattern, quote) for the pattern quote(.*?)quote with
\* re.DOTALL: the shortest block between two delimiters, left to right.
RECURSIVE ReplaceBlock(_, _, _)
ReplaceBlock(text, quote, i) ==
    IF i > Len(text) THEN <<>>
    ELSE LET open == i + Len(quote) - 1 <= Len(text)
                     /\ SubSeq(text, i, i + Len(quote) - 1) = quote
             j == IF open THEN FindFrom(text, quote, i + Len(quote)) ELSE 0
         IN IF j # 0
            THEN (IF j - (i + Len(quote)) > MaxLiteralChars
                  THEN quote \o <<Placeholder>> \o quote
                  ELSE SubSeq(text, i, j + Len(quote) - 1))
                 \o ReplaceBlock(text, quote, j + Len(quote))
            ELSE <<text[i]>> \o ReplaceBlock(text, quote, i + 1)

\* The largest e with text[i..e] free of '"', CR and LF.
RECURSIVE LineRunEnd(_, _)
LineRunEnd(text, i) ==
    IF i <= Len(text) /\ text[i] \notin {"\"", "\r", "\n"}
    THEN LineRunEnd(text, i + 1)
    ELSE i - 1

\* double_quote.sub(replace_double, text) for "([^"\r\n]{MAX,})".
RECURSIVE ReplaceDouble(_, _)
ReplaceDouble(text, i) ==
    IF i > Len(text) THEN <<>>
    ELSE LET e == IF text[i] = "\"" THEN LineRunEnd(text, i + 1) ELSE 0
             matched == /\ text[i] = "\""
                        /\ e - i >= MaxLiteralChars
                        /\ e + 1 <= Len(text) /\ text[e + 1] = "\""
         IN IF matched
            THEN (IF e - i > MaxLiteralChars
                  THEN <<"\"", Placeholder, "\"">>
                  ELSE SubSeq(text, i, e + 1))
                 \o ReplaceDouble(text, e + 2)
            ELSE <<text[i]>> \o ReplaceDouble(text, i + 1)

TripleDouble == <<"\"", "\"", "\"">>
TripleSingle == <<"'", "'", "'">>

\* LiteralTruncationStep.process, lines 184-201, on the text of the file.
TruncateLiterals(text) ==
    ReplaceDouble(
        ReplaceBlock(ReplaceBlock(text, TripleDouble, 1), TripleSingle, 1), 1)

\* The literals of the Turtle texts handed to the truncation step: a quote
\* style and a content around the threshold, with an escaped quote inside
\* for some of the quoted ones.
LiteralBodies ==
    {Repeat("a", n) : n \in (MaxLiteralChars - 1)..(MaxLiteralChars + 1)}
EscapedBodies ==
    {Repeat("a", n) \o <<"\\", "\"">> \o Repeat("a", k) :
        n \in {MaxLiteralChars - 1, MaxLiteralChars + 1},
        k \in {MaxLiteralChars - 1, MaxLiteralChars + 1}}
LongParts ==
    [quote : {<<"\"">>, TripleDouble, TripleSingle}, body : LiteralBodies]
    \cup [quote : {<<"\"">>}, body : EscapedBodies]

\* One statement of the file: subject and predicate, the literal, " ."
LiteralText(p) == <<"s", " ">> \o p.quote \o p.body \o p.quote \o <<" ", ".", "\n">>
RECURSIVE LiteralsText(_)
LiteralsText(parts) ==
    IF parts = <<>> THEN <<>>
    ELSE LiteralText(Head(parts)) \o LiteralsText(Tail(parts))

\* A Turtle file with string literals is written, one statement after the
\* other (two at most).
WriteLiterals(p) ==
    /\ \/ doc.pc = "idle"
       \/ doc.pc = "written" /\ doc.kind = "literals" /\ Len(doc.parts) < 2
    /\ doc' = [doc EXCEPT !.pc = "written", !.kind = "literals",
                          !.parts = Append(doc.parts, p),
                          !.text = LiteralsText(Append(doc.parts, p))]
    /\ UNCHANGED <<ingestVars, sanVars, loadVars, queryVars, syncVars, apiVars>>

LiteralTruncationText ==
    /\ doc.pc = "written"
    /\ doc.kind = "literals"
    /\ doc' = [doc EXCEPT !.pc = "truncated",
                          !.output = TruncateLiterals(doc.text)]
    /\ UNCHANGED <<ingestVars, sanVars, loadVars, queryVars, syncVars, apiVars>>

(***************************************************************************)
(* MarkdownHeaderTextSplitter(headers_to_split_on).split_text: a document  *)
(* is a sequence of lines, a heading line ("#", "##" or "###" and a text)  *)
(* or a body line. The splitter keeps the heading in force at each level   *)
(* and emits the body lines gathered under them as one chunk.              *)
(***************************************************************************)
HeaderLevels == 1..3                  \* "Header 1", "Header 2", "Header 3"
NoHeader == ""

Heading(level, text) == [kind |-> "heading", level |-> level, text |-> text]
Body(text) == [kind |-> "body", level |-> 0, text |-> text]

MarkdownLines ==
    {Heading(1, "A"), Heading(1, "C"), Heading(2, "B"), Heading(3, "D"),
     Body("x")}

NoContext == [l \in HeaderLevels |-> NoHeader]

\* A heading that leaves the deeper levels in force.
EnterHeadingKeepDeeper(context, line) ==
    [context EXCEPT ![line.level] = line.text]

\* A heading of level n replaces the one at level n and clears the deeper ones.
EnterHeading(context, line) ==
    [l \in HeaderLevels |->
        IF l < line.level THEN context[l]
        ELSE IF l = line.level THEN line.text
        ELSE NoHeader]

Chunk(context, content) == [metadata |-> context, page_content |-> content]

\* split_text from line i on, with the headings in force and the body
\* lines gathered since the last heading.
RECURSIVE SplitFrom(_, _, _, _)
SplitFrom(lines, i, context, content) ==
    LET flush == IF content = <<>> THEN <<>> ELSE <<Chunk(context, content)>>
    IN IF i > Len(lines) THEN flush
       ELSE IF lines[i].kind = "heading"
       THEN flush \o SplitFrom(lines, i + 1, EnterHeading(context, lines[i]), <<>>)
       ELSE SplitFrom(lines, i + 1, context, Append(content, lines[i].text))

SplitText(lines) == SplitFrom(lines, 1, NoContext, <<>>)

\* The Markdown document produced by the conversion, line after line.
WriteMarkdown(line) ==
    /\ \/ doc.pc = "idle"
       \/ doc.pc = "written" /\ doc.kind = "markdown"
          /\ Len(doc.parts) < MaxLines
    /\ doc' = [doc EXCEPT !.pc = "written", !.kind = "markdown",
                          !.parts = Append(doc.parts, line)]
    /\ UNCHANGED <<ingestVars, sanVars, loadVars, queryVars, syncVars, apiVars>>

\* Lines 144-146: chunks = splitter.split_text(markdown_content)
SplitMarkdown ==
    /\ doc.pc = "written"
    /\ doc.kind = "markdown"
    /\ doc' = [doc EXCEPT !.pc = "split", !.output = SplitText(doc.parts)]
    /\ UNCHANGED <<ingestVars, sanVars, loadVars, queryVars, syncVars, apiVars>>

TextNext ==
    \/ \E p \in TaggedParts : WriteTagged(p)
    \/ LanguageTagFixText
    \/ \E p \in LongParts : WriteLiterals(p)
    \/ LiteralTruncationText
    \/ \E line \in MarkdownLines : WriteMarkdown(line)
    \/ SplitMarkdown

\* The form fields of a request that reaches the handler.
FileNames == {"", "test.owl"}
MetadataJsons == {"{}", "{domain: test}"}

IngestRequest(filename, o, v, u, m) ==
    [filename |-> filename, ontology_id |-> o, version |-> v,
     is_update |-> u, metadata_json |-> m]

\* A dispatch that ignores the request's is_update flag.
DelayKwargsNeverUpdate(req) ==
    [filename |-> req.filename, ontology_id |-> req.ontology_id,
     version |-> req.version, is_update |-> FALSE,
     metadata_json |-> req.metadata_json]

\* The keyword arguments of process_ontology_task.delay(...)
DelayKwargs(req) ==
    [filename |-> req.filename, ontology_id |-> req.ontology_id,
     version |-> req.version, is_update |-> req.is_update,
     metadata_json |-> req.metadata_json]

\* IngestionResponse(task_id=task.id, ...) with status 202, or the
\* HTTPException raised instead; task_id 0 stands for "no task id".
Accepted(k) == [status |-> 202, task_id |-> k]
HttpError(code) == [status |-> code, task_id |-> 0]

ApiInit == api = <<>>

\* ingest_ontology: one request handled from entry to response.  read_ok and
\* delay_ok say whether ontology_file.read() and .delay() return or raise;
\* n is the number of chunks the uploaded file will produce.
IngestOntology(req, read_ok, delay_ok, k, n) ==
    /\ Len(api) < MaxRequests
    /\ IF req.filename = ""
       THEN /\ api' = Append(api, [request |-> req, failure |-> "none",
                                   dispatched |-> <<>>,
                                   response |-> HttpError(400)])
            /\ UNCHANGED <<task, disturbed>>
       ELSE IF ~read_ok \/ ~delay_ok
       THEN /\ api' = Append(api, [request |-> req,
                                   failure |-> IF read_ok THEN "delay" ELSE "read",
                                   dispatched |-> <<>>,
                                   response |-> HttpError(500)])
            /\ UNCHANGED <<task, disturbed>>
       ELSE LET kw == DelayKwargs(req)
            IN /\ Enqueue(k, kw.ontology_id, kw.version, kw.is_update, n)
               /\ api' = Append(api, [request |-> req, failure |-> "none",
                                      dispatched |-> <<kw>>,
                                      response |-> Accepted(k)])
    /\ UNCHANGED <<store, failures, sanVars, loadVars, queryVars, syncVars, textVars>>

ApiNext ==
    \E filename \in FileNames, o \in Ontologies, v \in IngestVersions,
       u \in BOOLEAN, m \in MetadataJsons, read_ok \in BOOLEAN,
       delay_ok \in BOOLEAN, k \in TaskNums, n \in 0..MaxChunks :
        IngestOntology(IngestRequest(filename, o, v, u, m), read_ok, delay_ok, k, n)

(***************************************************************************)
(* Specifications.                                                         *)
(***************************************************************************)
Init ==
    /\ IngestInit /\ SanInit /\ LoadInit /\ QueryInit /\ SyncInit
    /\ TextInit /\ ApiInit

SpecIngest == Init /\ [][IngestNext]_vars

SpecSanitize == Init /\ [][SanitizeNext]_vars

SpecLoad == Init /\ [][LoadNext]_vars

SpecQuery == Init /\ [][QueryNext]_vars

SpecSync == Init /\ [][SyncNext]_vars

SpecText == Init /\ [][TextNext]_vars

SpecApi == Init /\ [][ApiNext]_vars

SpecSyncSteady == Init /\ [][SteadyNext]_vars


(***************************************************************************)
(* C1: when an update-mode run for ontology X completes successfully and   *)
(* no other ingestion of X ran concurrently (or since), the records of X   *)
(* in the store are exactly the chunks this run upserted.                  *)
(***************************************************************************)
C1_UpdateReplaces ==
    \A k \in TaskNums :
        (task[k].pc = "success" /\ task[k].is_update /\ ~disturbed[k]) =>
            RecordsOf(store, task[k].ontology_id)
                = {ChunkRecord(k, i) : i \in 0..(task[k].nchunks - 1)}

\* An undisturbed update run succeeded after an earlier successful run of the
\* same ontology had indexed chunks: those are gone, the new ones are there.
C1_Witness ==
    \E k, j \in TaskNums :
        /\ j # k
        /\ task[k].pc = "success" /\ task[k].is_update /\ ~disturbed[k]
        /\ task[k].nchunks > 0
        /\ task[j].pc = "success" /\ task[j].nchunks > 0
        /\ task[j].ontology_id = task[k].ontology_id
        /\ \A i \in 0..(task[j].nchunks - 1) : ChunkRecord(j, i) \notin store

(***************************************************************************)
(* C2: the record identifier is a function of (task_id, chunk_index) only: *)
(* the store never holds two records written for the same (task, chunk     *)
(* index), and once a run of batch_index_chunks has completed (also a      *)
(* re-run after a run that failed part-way) and no other ingestion of the  *)
(* ontology interfered, the store holds exactly one record per chunk index *)
(* of that task, under the identifier computed from (task_id, index).      *)
(***************************************************************************)
C2_IdempotentUpsert ==
    /\ \A x, y \in store : (x.tsk = y.tsk /\ x.idx = y.idx) => x = y
    /\ \A k \in TaskNums :
          (task[k].pc = "success" /\ ~disturbed[k]) =>
              /\ {x \in store : x.tsk = k}
                    = {ChunkRecord(k, i) : i \in 0..(task[k].nchunks - 1)}
              /\ \A i \in 0..(task[k].nchunks - 1) :
                    Cardinality({x \in store : x.tsk = k /\ x.idx = i}) = 1

\* A task whose first run failed after sending some but not all of its
\* objects was run again and completed.
C2_Witness ==
    \E k \in TaskNums :
        /\ task[k].pc = "success" /\ ~disturbed[k]
        /\ task[k].sent_before > 0
        /\ task[k].sent_before < task[k].nchunks

(***************************************************************************)
(* The sanitizer run replayed from its log.                                *)
(***************************************************************************)
RECURSIVE Flatten(_)
Flatten(seqs) ==
    IF seqs = <<>> THEN <<>> ELSE Head(seqs) \o Flatten(Tail(seqs))

IsPrefix(a, b) == Len(a) <= Len(b) /\ a = SubSeq(b, 1, Len(a))

\* The log entries of step number s, in the order of the calls.
EntriesOf(s) == SelectSeq(san_log, LAMBDA e : e.si = s)

\* What a call must hand to the next step: its outputs when it returned,
\* its own input, and nothing else, when it skipped or raised.
Contribution(e) == IF e.kind = "ok" THEN e.out ELSE <<e.cand>>

Handed(s) ==
    IF s = 0 THEN <<WorkingPath>>
    ELSE LET entries == EntriesOf(s)
         IN Flatten([i \in 1..Len(entries) |-> Contribution(entries[i])])

Processed(s) ==
    LET entries == EntriesOf(s)
    IN [i \in 1..Len(entries) |-> entries[i].cand]

\* C3: whatever the steps (the three defaults and any added with add_step)
\* do on every candidate, the list sanitize returns contains the private
\* copy of the input, and that copy still has the content of the source.
C3_OriginalRetained ==
    san.pc = "done" =>
        /\ WorkingPath \in SeqToSet(san.result)
        /\ files[WorkingPath] = files[san.source]

\* C6: a step call that raises hands its candidate on unchanged and none of
\* its partial outputs; the step goes on with the remaining candidates and
\* the later steps run: every step processes, in order, exactly what the
\* step before it handed on, and sanitize returns what the last step handed
\* on (without repetitions).
C6_FailurePassesThrough ==
    san.pc \in {"steps", "done"} =>
        /\ \A s \in 1..Len(san.steps) :
              LET processed == Processed(s)
                  handed == Handed(s - 1)
              IN /\ IsPrefix(processed, handed)
                 /\ (san.pc = "done" \/ s < san.si) => processed = handed
        /\ san.pc = "steps" =>
              /\ san.candidates = Handed(san.si - 1)
              /\ san.new_candidates = Handed(san.si)
        /\ san.pc = "done" => san.result = Dedupe(Handed(Len(san.steps)))

C6_Witness ==
    /\ san.pc = "done"
    /\ \E n \in 1..Len(san_log) :
          /\ san_log[n].kind = "fail"
          /\ san_log[n].out # <<>>
          /\ \E m \in (n + 1)..Len(san_log) : san_log[m].si = san_log[n].si
          /\ \E m \in (n + 1)..Len(san_log) : san_log[m].si > san_log[n].si
          /\ san_log[n].cand \in SeqToSet(Processed(san_log[n].si + 1))

\* C7: sanitize never raises, whether or not the source can be read and
\* copied into the workspace.
C7_SanitizeNeverRaises == san.pc # "raised"

\* C8: with the three default steps, every variant a step derived from a
\* candidate c comes before c in the returned list, and the unmodified copy
\* of the input is the last element.
C8_VariantsBeforeOriginal ==
    (san.pc = "done" /\ san.steps = DefaultSteps) =>
        /\ san.result # <<>>
        /\ san.result[Len(san.result)] = WorkingPath
        /\ files[WorkingPath] = files[san.source]
        /\ \A n \in 1..Len(san_log) :
              san_log[n].kind = "ok" =>
                 \A i \in 1..Len(san_log[n].out) :
                    san_log[n].out[i] # san_log[n].cand =>
                       /\ IndexOf(san.result, san_log[n].out[i]) > 0
                       /\ IndexOf(san.result, san_log[n].out[i])
                            < IndexOf(san.result, san_log[n].cand)

C8_Witness ==
    /\ san.pc = "done"
    /\ san.steps = DefaultSteps
    /\ \A st \in SeqToSet(DefaultSteps) :
          \E n \in 1..Len(san_log) :
              san_log[n].step = st /\ san_log[n].kind = "ok"
    /\ \E n \in 1..Len(san_log) :
          san_log[n].kind = "ok" /\ san_log[n].cand # WorkingPath

(***************************************************************************)
(* The loader run compared with what it planned.                           *)
(***************************************************************************)
\* The (candidate, format) pairs of the candidates entered so far, in the
\* order the loops reach them.
PlannedPairs ==
    Flatten([i \in 1..Len(load.plans) |->
                [j \in 1..Len(load.plans[i].formats) |->
                    [cand |-> load.plans[i].cand,
                     fmt |-> load.plans[i].formats[j]]]])

AttemptedPairs ==
    [i \in 1..Len(attempts) |-> [cand |-> attempts[i].cand, fmt |-> attempts[i].fmt]]

\* C4: candidates are attempted in the order sanitize returned them and the
\* formats of one candidate in their computed order; the graph returned is
\* that of the first successful attempt, no attempt follows a success, and
\* a candidate is attempted only after every earlier attempt has failed.
C4_FirstSuccessReturned ==
    /\ IsPrefix(AttemptedPairs, PlannedPairs)
    /\ Len(load.plans) <= Len(san.result)
    /\ \A i \in 1..Len(load.plans) : load.plans[i].cand = san.result[i]
    /\ load.pc = "parsing" =>
          \A i \in 1..Len(load.plans) :
              load.plans[i].formats
                  = (IF HasTtl(san.result[i]) THEN <<"turtle">> ELSE <<>>)
                    \o DetectCandidateFormats(san.result[i], files)
    /\ \A i \in 1..(Len(attempts) - 1) : ~attempts[i].ok
    /\ load.pc = "returned" <=> (attempts # <<>> /\ attempts[Len(attempts)].ok)
    /\ load.pc = "returned" =>
          load.graph = AttemptedPairs[Len(attempts)]

C4_Witness ==
    /\ load.pc = "returned"
    /\ Len(load.plans) >= 2
    /\ load.fi >= 2
    /\ Len(attempts) < Len(PlannedPairs)
    /\ Len(load.plans) < Len(san.result)

\* C5: when every attempt on every candidate has failed, the loader returns
\* no graph and raises the exception of the chronologically last failed
\* attempt of the whole run.
C5_LastExceptionRaised ==
    /\ (load.pc = "raised" /\ attempts # <<>>) =>
          /\ \A i \in 1..Len(attempts) : ~attempts[i].ok
          /\ Len(load.plans) = Len(san.result)
          /\ AttemptedPairs = PlannedPairs
          /\ load.graph = LoadIdle.graph
          /\ load.exc = ParseError(attempts[Len(attempts)].cand,
                                   attempts[Len(attempts)].fmt, Len(attempts))
    /\ (/\ attempts # <<>>
        /\ \A i \in 1..Len(attempts) : ~attempts[i].ok
        /\ Len(load.plans) = Len(san.result)
        /\ AttemptedPairs = PlannedPairs) => load.pc = "raised"

C5_Witness ==
    /\ load.pc = "raised"
    /\ Len(load.plans) >= 2
    /\ \E i \in 1..(Len(attempts) - 1) :
          attempts[i].cand # attempts[Len(attempts)].cand
    /\ load.exc.kind = "parse"
    /\ load.exc.n = Len(attempts)

\* C9: whichever of the search, rerank and generation provider calls fail,
\* answer_query returns a QueryResponse and does not raise; each failure is
\* replaced at its own stage by that stage's fallback: empty results, the
\* unranked order, the raw-context answer.
C9_ProviderFailuresDegrade ==
    /\ query.pc # "raised"
    /\ query.search_outcome = "raise" =>
          /\ query.search_results = <<>>
          /\ query.pc = "returned"
    /\ query.rerank_outcome = "raise" =>
          /\ query.reranked_results = query.search_results
          /\ query.pc \in {"reranked", "returned"}
    /\ query.generation_outcome = "raise" =>
          /\ query.response.answer = FallbackAnswer(query.top_results)
          /\ query.pc = "returned"
    /\ query.pc = "returned" =>
          /\ DOMAIN query.response = {"answer", "sources"}
          /\ query.response.answer.kind \in {"not_found", "llm", "fallback"}

C9_Witness ==
    /\ query.pc = "returned"
    /\ query.rerank_outcome = "raise"
    /\ query.generation_outcome = "raise"
    /\ calls = <<"search", "rerank", "generate">>

\* C10: when the search yields no results, because nothing matches or
\* because the provider call fails, answer_query returns the fixed "could
\* not find" answer with no sources and calls neither the rerank nor the
\* generation provider.
C10_NoResultsFixedAnswer ==
    (/\ query.search_outcome # ""
     /\ \/ query.search_outcome = "raise"
        \/ query.search_results = <<>>) =>
        /\ query.pc = "returned"
        /\ query.search_results = <<>>
        /\ query.response = QueryResponse(NotFoundAnswer, <<>>)
        /\ calls = <<"search">>

C10_Witness ==
    /\ query.pc = "returned"
    /\ query.search_outcome = "raise"
    /\ query.cohere_client
    /\ query.llm_chain

(***************************************************************************)
(* The response of answer_query compared with the search results.          *)
(***************************************************************************)
Min(a, b) == IF a < b THEN a ELSE b

\* The answer text is not the empty string.
NonEmptyAnswer(answer) == answer.kind = "llm" => answer.text # <<>>

\* The rerank stage fell back: no client, an exception of the call, or a
\* result index outside the documents.
RerankFellBack == query.rerank_outcome \in {"unconfigured", "raise", "beyond_end"}

\* C11: when the rerank provider is not configured or its call fails on n > 0
\* search results (an index outside the list included), the sources are the
\* first min(5, n) search results in search order and the answer returned
\* is not empty.
C11_RerankFallbackOrder ==
    (query.pc = "returned" /\ query.search_results # <<>> /\ RerankFellBack) =>
        /\ query.response.sources
             = [i \in 1..Min(top_k, Len(query.search_results)) |->
                    SourceChunk(query.search_results[i])]
        /\ NonEmptyAnswer(query.response.answer)

\* The indexed objects the search hits are taken from, and the one a source
\* entry came from (contents are distinct per chunk).
IndexedChunks == {DataObject(1, "X", "v1", i) : i \in 0..(MaxHits - 1)}
IndexedChunkOf(src) == CHOOSE x \in IndexedChunks : x.content = src.content

\* C12: for an answer produced from a non-empty search result list, sources
\* is the first min(5, m) elements of the post-rerank list in that order,
\* and each entry carries the ontology identifier, version, content and
\* metadata of the indexed chunk it came from.
C12_SourcesCarryChunk ==
    (query.pc = "returned" /\ query.search_results # <<>>) =>
        LET m == Len(query.reranked_results)
            sources == query.response.sources
        IN /\ Len(sources) = Min(top_k, m)
           /\ \A i \in 1..Len(sources) :
                 /\ sources[i].content = query.reranked_results[i].content
                 /\ sources[i].ontology_id = IndexedChunkOf(sources[i]).ontology_id
                 /\ sources[i].version = IndexedChunkOf(sources[i]).version
                 /\ sources[i].content = IndexedChunkOf(sources[i]).content
                 /\ sources[i].metadata = IndexedChunkOf(sources[i]).metadata

\* How many times x occurs in seq.
Occurrences(seq, x) == Cardinality({i \in 1..Len(seq) : seq[i] = x})

\* C13: whatever the rerank provider answers, the list _rerank returns is a
\* reordering of the search results: each search result occurs in it
\* exactly once, unchanged, and it holds nothing the search did not return.
C13_RerankIsReordering ==
    query.pc \in {"reranked", "returned"} /\ query.search_results # <<>> =>
        /\ \A i \in 1..Len(query.search_results) :
              Occurrences(query.reranked_results, query.search_results[i]) = 1
        /\ \A i \in 1..Len(query.reranked_results) :
              query.reranked_results[i] \in SeqToSet(query.search_results)

\* t is text with the whitespace at both ends removed, and nothing else.
IsTrimOf(t, text) ==
    /\ t # <<>> => t[1] \notin Whitespace /\ t[Len(t)] \notin Whitespace
    /\ \E lead \in 0..Len(text) :
          /\ lead + Len(t) <= Len(text)
          /\ t = SubSeq(text, lead + 1, lead + Len(t))
          /\ \A i \in 1..Len(text) :
                (i <= lead \/ i > lead + Len(t)) => text[i] \in Whitespace

\* C14: with non-empty top results, when the generation provider is not
\* configured (or failed to initialise) or its call raises, the answer is
\* the contents of the top results in order, unchanged, with the disclaimer;
\* when the call succeeds the answer is the provider's text trimmed.
C14_GenerationFallback ==
    (query.pc = "returned" /\ query.top_results # <<>>) =>
        /\ query.generation_outcome \in {"unconfigured", "raise", "no_text"} =>
              /\ query.response.answer.kind = "fallback"
              /\ query.response.answer.context
                   = [i \in 1..Len(query.top_results) |-> query.top_results[i].content]
        /\ query.generation_outcome = "text" =>
              /\ query.response.answer.kind = "llm"
              /\ IsTrimOf(query.response.answer.text, query.generation_text)
        /\ query.generation_outcome \in {"unconfigured", "raise", "no_text", "text"}
        /\ (query.generation_outcome = "unconfigured") = ~query.llm_chain

C14_Witness ==
    /\ query.pc = "returned"
    /\ query.generation_outcome = "raise"
    /\ Len(query.top_results) >= 2
    /\ calls[Len(calls)] = "generate"

(***************************************************************************)
(* The decisions of a sync cycle, read from its log.                       *)
(***************************************************************************)
\* C15: for each catalog record of a cycle a task is dispatched if and only
\* if nothing is indexed for the acronym or the indexed version differs
\* from the catalog's; it is dispatched with is_update false when nothing
\* is indexed and with is_update true when another version is indexed.
\* (Stated for records whose acronym is indexed at one version at most and
\* whose download and dispatch calls, when made, returned.)
C15_DispatchOnMismatch ==
    \A i \in 1..Len(sync_log) :
        LET e == sync_log[i]
        IN (Cardinality(e.indexed) <= 1 /\ ~e.raised) =>
              /\ e.dispatched <=> (e.indexed = {} \/ e.indexed # {e.version})
              /\ e.dispatched => (e.is_update <=> e.indexed # {})

(***************************************************************************)
(* Concurrent and failing ingestion runs.                                  *)
(***************************************************************************)
ChunksOf(k) == {ChunkRecord(k, i) : i \in 0..(task[k].nchunks - 1)}

SameOntologyUpdates(k, j) ==
    /\ k # j
    /\ task[k].is_update /\ task[j].is_update
    /\ task[k].pc # "none" /\ task[j].pc # "none"
    /\ task[k].ontology_id = task[j].ontology_id

\* C16: two update-mode ingestions of one ontology identifier under
\* different task ids are not serialized: while one is between its delete
\* and the end of its inserts the other, once dispatched, can start (and
\* delete); an interleaving in which both succeed and the records of the
\* identifier are not the chunks of one single run is reachable. Records
\* of a successful run are missing only when another run of the identifier
\* overlapped or followed it.
C16_NoSerialization ==
    /\ \A k, j \in TaskNums :
          (SameOntologyUpdates(k, j) /\ task[k].pc \in Running
              /\ task[j].pc = "queued") => ENABLED TaskStart(j)
    /\ \A k \in TaskNums :
          (task[k].pc = "success" /\ ~(ChunksOf(k) \subseteq store))
              => disturbed[k]

C16_Witness ==
    \E k, j \in TaskNums :
        /\ SameOntologyUpdates(k, j)
        /\ task[k].pc = "success" /\ task[j].pc = "success"
        /\ RecordsOf(store, task[k].ontology_id) # ChunksOf(k)
        /\ RecordsOf(store, task[k].ontology_id) # ChunksOf(j)

\* Task k is an update-mode run that has deleted and not inserted: it is
\* between the delete and the first insert, or it stopped there.
DeletedNotInserted(k) ==
    /\ task[k].is_update
    /\ \/ task[k].pc = "prepared"
       \/ task[k].pc = "failed" /\ task[k].failed_at = "prepared"

\* Some task inserts a record of ontology o in this step.
InsertsFor(o) ==
    \E j \in TaskNums :
        /\ task[j].ontology_id = o
        /\ task'[j].next_i = task[j].next_i + 1

\* C17: an update-mode run passes through a state where its delete is
\* committed and nothing is inserted, in which (no other run of the
\* identifier interfering) the store holds no record of the identifier; if
\* the run stops there the store stays empty for the identifier until an
\* ingestion inserts again.
C17_EmptyWindow ==
    /\ [](\A k \in TaskNums :
            (task[k].is_update /\ task[k].pc = "prepared" /\ ~disturbed[k]) =>
                RecordsOf(store, task[k].ontology_id) = {})
    /\ [][\A k \in TaskNums :
            (DeletedNotInserted(k)
                /\ RecordsOf(store, task[k].ontology_id) = {}) =>
                    \/ RecordsOf(store', task[k].ontology_id) = {}
                    \/ InsertsFor(task[k].ontology_id)]_vars

C17_Witness ==
    \E k, j \in TaskNums :
        /\ k # j
        /\ task[k].is_update
        /\ task[k].pc = "failed" /\ task[k].failed_at = "prepared"
        /\ task[j].ontology_id = task[k].ontology_id
        /\ task[j].pc = "success" /\ task[j].nchunks > 0
        /\ RecordsOf(store, task[k].ontology_id) = {}

IdsOf(k) == {r.id : r \in ChunksOf(k)}

SameOntologyInserts(k, j) ==
    /\ k # j
    /\ ~task[k].is_update /\ ~task[j].is_update
    /\ task[k].ontology_id = task[j].ontology_id
    /\ task[k].version = task[j].version

\* C18: two insert-mode runs of the same identifier and version under
\* different task ids write disjoint identifier sets; once both have
\* succeeded the store holds the records of both, so every chunk content
\* both runs produced is present under two identifiers.
C18_DifferentTaskIdsDuplicate ==
    \A k, j \in TaskNums :
        (SameOntologyInserts(k, j)
            /\ task[k].pc = "success" /\ task[j].pc = "success") =>
            /\ IdsOf(k) \cap IdsOf(j) = {}
            /\ RecordsOf(store, task[k].ontology_id) = ChunksOf(k) \cup ChunksOf(j)
            /\ Cardinality({r.id : r \in RecordsOf(store, task[k].ontology_id)})
                   = task[k].nchunks + task[j].nchunks
            /\ \A i \in 0..(Min(task[k].nchunks, task[j].nchunks) - 1) :
                   Cardinality({r.id : r \in {x \in store :
                       x.content = ChunkContent(task[k].ontology_id, task[k].version, i)}}) = 2

C18_Witness ==
    \E k, j \in TaskNums :
        /\ SameOntologyInserts(k, j)
        /\ task[k].pc = "success" /\ task[j].pc = "success"
        /\ task[k].nchunks = MaxChunks /\ task[j].nchunks = MaxChunks

\* Records in the store whose identifier is derived from the id of task k.
DerivedFrom(k) ==
    {x \in store : \E i \in 0..MaxChunks : x.id = DeterministicUuid(TaskId(k), i)}

\* C19: a run that fails while loading, converting, splitting or decoding
\* the metadata has upserted nothing: the store holds no record with an
\* identifier derived from its task id, other than what earlier failed
\* executions under the same task id had already sent.
C19_NoUpsertOnLoadFailure ==
    \A k \in TaskNums :
        (task[k].pc = "failed" /\ task[k].failed_at = "prepared") =>
            /\ task[k].next_i = 0
            /\ DerivedFrom(k) \subseteq
                   {ChunkRecord(k, i) : i \in 0..(task[k].sent_before - 1)}
            /\ task[k].sent_before = 0 => DerivedFrom(k) = {}

C19_Witness ==
    \E k \in TaskNums :
        /\ task[k].pc = "failed" /\ task[k].failed_at = "prepared"
        /\ task[k].nchunks > 0
        /\ task[k].sent_before = 0
        /\ store # {}

\* C20: when any step of the task raises, the state is FAILURE with the
\* type name and message of the exception, that same exception leaves the
\* task and nothing is returned; status success is returned only by a run
\* in which no step raised and the upsert sent every chunk.
C20_FailureRecordedAndRaised ==
    \A k \in TaskNums :
        /\ task[k].pc = "failed" =>
              /\ task[k].raised # NoTaskException
              /\ task[k].state = "FAILURE"
              /\ task[k].meta = [exc_type |-> task[k].raised.type,
                                 exc_message |-> task[k].raised.message]
              /\ task[k].returned = NoResult
        /\ task[k].raised # NoTaskException => task[k].returned.status # "success"
        /\ task[k].returned.status = "success" =>
              /\ task[k].pc = "success"
              /\ task[k].raised = NoTaskException
              /\ task[k].state # "FAILURE"
              /\ task[k].next_i = task[k].nchunks
              /\ task[k].returned.chunks_indexed = task[k].nchunks
              /\ ChunksOf(k) \subseteq store \/ disturbed[k]
        /\ task[k].pc \in {"none", "queued"} \cup Running =>
              task[k].returned = NoResult

\* The cycle that has just run (or is running) was started with sync
\* disabled, or enabled without an API key.
SyncUnconfigured == ~sync.enabled \/ ~sync.api_key

\* C21: with sync disabled, or enabled without an API key, sync returns
\* skipped with reason disabled, respectively missing_api_key, calls neither
\* the catalog nor the store nor the dispatcher, and the step leaves the
\* tasks and the store as they were.
C21_SkipWithoutCalls ==
    /\ [](SyncUnconfigured =>
            /\ sync.pc = "returned"
            /\ sync.result = [status |-> "skipped",
                              reason |-> IF ~sync.enabled THEN "disabled"
                                         ELSE "missing_api_key"]
            /\ sync.touched = {}
            /\ sync.queued_jobs = <<>>)
    /\ [][(sync' # sync /\ (~sync'.enabled \/ ~sync'.api_key)) =>
            UNCHANGED <<store, task, catalog>>]_vars

C21_Witness ==
    /\ sync.enabled /\ ~sync.api_key
    /\ sync.result.status = "skipped"
    /\ store # {}
    /\ catalog["X"] = CatalogVersions[2]

C23_NoXmlForTtl ==
    \A i \in 1..Len(load.plans) :
        LET detected == SeqToSet(load.plans[i].detected)
        IN IF HasTtl(load.plans[i].cand)
           THEN ~("xml" \in detected /\ "turtle" \in detected)
           ELSE "xml" \in detected

C23_Witness ==
    \E i \in 1..Len(load.plans) :
        /\ HasTtl(load.plans[i].cand)
        /\ load.plans[i].cand \in DOMAIN files
        /\ "xml" \in files[load.plans[i].cand].head
        /\ "turtle" \in SeqToSet(load.plans[i].detected)
        /\ "xml" \notin SeqToSet(load.plans[i].detected)

\* What the tag fix is to make of one tagged literal: the tag of a valid
\* tag kept, an invalid tag dropped, what follows the tag untouched.
ExpectedTagFix(p) ==
    p.lit \o (IF p.tag.valid THEN <<"@">> \o p.tag.chars ELSE <<>>) \o p.fol

RECURSIVE ExpectedTagFixes(_)
ExpectedTagFixes(parts) ==
    IF parts = <<>> THEN <<>>
    ELSE ExpectedTagFix(Head(parts)) \o ExpectedTagFixes(Tail(parts))

\* C24: in the output of the language tag fix every literal with an invalid
\* tag has lost the tag and only the tag, and every literal with a valid
\* tag is unchanged, whatever character follows the tag.
C24_InvalidTagsStripped ==
    doc.pc = "langfix" => doc.output = ExpectedTagFixes(doc.parts)

\* What the truncation is to make of one literal: the placeholder in the
\* same quotes when its content is longer than the threshold, else itself.
ExpectedTruncation(p) ==
    <<"s", " ">>
    \o (IF Len(p.body) > MaxLiteralChars
        THEN p.quote \o <<Placeholder>> \o p.quote
        ELSE p.quote \o p.body \o p.quote)
    \o <<" ", ".", "\n">>

RECURSIVE ExpectedTruncations(_)
ExpectedTruncations(parts) ==
    IF parts = <<>> THEN <<>>
    ELSE ExpectedTruncation(Head(parts)) \o ExpectedTruncations(Tail(parts))

\* C25: in the output of the literal truncation every literal (quoted or
\* triple-quoted, with or without an escaped quote inside) whose content is
\* longer than the threshold is replaced by the placeholder literal, every
\* other literal and the text outside the literals are unchanged.
C25_LongLiteralsReplaced ==
    doc.pc = "truncated" => doc.output = ExpectedTruncations(doc.parts)

\* The lines at which a section starts: a body line that is the first line
\* or follows a heading.
SectionStarts(lines) ==
    {i \in 1..Len(lines) :
        /\ lines[i].kind = "body"
        /\ (i = 1 \/ lines[i - 1].kind = "heading")}

\* The heading of level l enclosing line i: the last heading of that level
\* before i with no heading of a higher level (a smaller number) after it.
EnclosingHeading(lines, i, l) ==
    LET H == {j \in 1..(i - 1) :
                /\ lines[j].kind = "heading" /\ lines[j].level = l
                /\ \A h \in (j + 1)..(i - 1) :
                      lines[h].kind = "heading" => lines[h].level >= l
                /\ \A h \in (j + 1)..(i - 1) :
                      ~(lines[h].kind = "heading" /\ lines[h].level = l)}
    IN IF H = {} THEN NoHeader ELSE lines[CHOOSE j \in H : TRUE].text

\* The k-th smallest element of a set of numbers.
RECURSIVE Nth(_, _)
Nth(S, k) ==
    LET least == CHOOSE x \in S : \A y \in S : x <= y
    IN IF k = 1 THEN least ELSE Nth(S \ {least}, k - 1)

\* C29: splitting yields one chunk per non-empty section, in document
\* order; each chunk carries, for every level, the text of the enclosing
\* heading of that level, a heading clearing the deeper levels.
C29_ChunksPerSection ==
    doc.pc = "split" =>
        LET starts == SectionStarts(doc.parts)
        IN /\ Len(doc.output) = Cardinality(starts)
           /\ \A k \in 1..Len(doc.output) :
                LET i == Nth(starts, k)
                IN /\ \A l \in HeaderLevels :
                        doc.output[k].metadata[l]
                            = EnclosingHeading(doc.parts, i, l)
                   /\ doc.output[k].page_content # <<>>
                   /\ \A n \in 1..Len(doc.output[k].page_content) :
                        /\ doc.parts[i + n - 1].kind = "body"
                        /\ doc.output[k].page_content[n] = doc.parts[i + n - 1].text

C29_Witness ==
    /\ doc.pc = "split"
    /\ doc.parts = <<Heading(1, "A"), Body("x"), Heading(2, "B"), Body("x"),
                     Heading(1, "C"), Body("x")>>
    /\ Len(doc.output) = 3
    /\ doc.output[1].metadata = <<"A", NoHeader, NoHeader>>
    /\ doc.output[2].metadata = <<"A", "B", NoHeader>>
    /\ doc.output[3].metadata = <<"C", NoHeader, NoHeader>>

WorkspaceFiles == {p \in DOMAIN files : p.dir = "workspace"}

\* C26: on every exit of _load_graph_with_fallbacks (a graph is returned,
\* every candidate failed to parse, sanitize raised) the scratch workspace
\* has been removed.
C26_WorkspaceRemoved ==
    load.pc \in {"returned", "raised"} => WorkspaceFiles = {}

\* C26 as amended: on every exit cleanup has been called; the workspace is
\* gone when its removal succeeded, and a failed removal leaves the files
\* and the outcome of the call as they were; the caller's file is kept.
C26_CleanupCalledOnExit ==
    /\ load.pc \in {"returned", "raised"} =>
          /\ load.cleanup \in {"removed", "failed"}
          /\ load.cleanup = "removed" => WorkspaceFiles = {}
          /\ san.pc = "done" => san.source \in DOMAIN files
          /\ (load.pc = "raised" /\ attempts # <<>>) =>
                load.exc = load.last_exception
    /\ load.pc \notin {"returned", "raised"} => load.cleanup = "not_called"

C26_Witness ==
    /\ load.pc = "raised"
    /\ load.cleanup = "failed"
    /\ WorkspaceFiles # {}
    /\ Len(attempts) >= 2

\* C27: sanitize never writes to the caller's file and no step changes the
\* content of a file that exists: a step only adds files, with new names,
\* inside the workspace.
C27_StepsOnlyAddFiles ==
    /\ [](san.pc \in {"steps", "done"} =>
            /\ san.source \in DOMAIN files
            /\ san.source.dir = "upload"
            /\ WorkingPath \in DOMAIN files
            /\ files[WorkingPath] = files[san.source])
    /\ [][san.pc = "steps" =>
            /\ \A p \in DOMAIN files :
                  p \in DOMAIN files' /\ files'[p] = files[p]
            /\ \A p \in DOMAIN files' \ DOMAIN files : p.dir = "workspace"]_vars

C27_Witness ==
    /\ san.pc = "done"
    /\ files[san.source].long /\ files[san.source].bad
    /\ \E p, q \in WorkspaceFiles :
          /\ p # q
          /\ ~files[p].long
          /\ ~files[q].bad /\ files[q].long

\* The tasks that have been dispatched.
DispatchedTasks == {k \in TaskNums : task[k].pc # "none"}

AcceptedRequests == {i \in DOMAIN api : api[i].response.status = 202}

FailedBeforeIndexing(k) ==
    /\ task[k].is_update
    /\ task[k].pc = "failed" /\ task[k].failed_at = "prepared"

\* C30 (as stated): an update-mode ingestion that fails in parsing,
\* conversion, splitting or metadata decoding leaves the records indexed
\* before it for its identifier in the store.
C30_FailedUpdateKeepsRecords ==
    \A k, j \in TaskNums :
        (/\ k # j
         /\ FailedBeforeIndexing(k)
         /\ task[j].ontology_id = task[k].ontology_id
         /\ task[j].pc = "success") => ChunksOf(j) \subseteq store

\* C30 (amended): in update mode the records of the identifier are deleted
\* when the run starts, before the file is parsed: the step that takes the
\* run to the point where loading begins leaves no record of the identifier;
\* loading, converting and splitting, whether they succeed or fail, leave the
\* store as it is; and a run that failed there has none of its own records
\* in the store.
C30_DeleteBeforeParsing ==
    /\ [][\A k \in TaskNums :
            (task[k].is_update /\ task[k].pc = "queued"
                /\ task'[k].pc = "prepared") =>
                    RecordsOf(store', task[k].ontology_id) = {}]_vars
    /\ [][\A k \in TaskNums :
            (task[k].pc = "prepared" /\ task'[k].pc \in {"chunked", "failed"}) =>
                /\ store' = store
                /\ task'[k].next_i = 0]_vars
    /\ [](\A k \in TaskNums :
            FailedBeforeIndexing(k) => \A r \in store : r.tsk # k)

C30_Witness ==
    \E k, j \in TaskNums :
        /\ k # j
        /\ FailedBeforeIndexing(k)
        /\ task[k].nchunks > 0
        /\ task[j].ontology_id = task[k].ontology_id
        /\ task[j].pc = "success" /\ task[j].nchunks > 0
        /\ ~(ChunksOf(j) \subseteq store)

(***************************************************************************)
(* Sync cycles and the ingestion tasks they dispatch.                      *)
(***************************************************************************)
\* The tasks of ontology o that are pending or running.
InFlight(o) ==
    {k \in TaskNums :
        task[k].ontology_id = o /\ task[k].pc \in {"queued"} \cup Running}

\* C31: while an ingestion task that a sync cycle dispatched for an ontology
\* is pending or running, no later cycle dispatches a second one: at most
\* one ingestion per ontology is in flight at a time.
C31_OneInFlight ==
    \A o \in Ontologies : Cardinality(InFlight(o)) <= 1

\* C32: when the store query for the indexed version fails,
\* _get_current_version reports no version: the record is treated as not
\* indexed and, download and dispatch returning, a task is dispatched for it
\* with is_update false, whatever the store holds for the acronym.
C32_QueryFailureMeansNotIndexed ==
    \A i \in 1..Len(sync_log) :
        LET e == sync_log[i]
        IN ~e.query_ok =>
              /\ e.existing_version = None
              /\ ~e.is_update
              /\ e.dispatched <=> ~e.raised
              /\ e.dispatched =>
                    /\ e.task \in TaskNums
                    /\ task[e.task].pc # "none"
                    /\ task[e.task].ontology_id = e.acronym
                    /\ task[e.task].version = e.version
                    /\ ~task[e.task].is_update

C32_Witness ==
    \E i \in 1..Len(sync_log) :
        /\ ~sync_log[i].query_ok
        /\ sync_log[i].indexed = {sync_log[i].version}
        /\ sync_log[i].dispatched
        /\ ~task[sync_log[i].task].is_update
        /\ RecordsOf(store, sync_log[i].acronym) # {}

(***************************************************************************)
(* The (candidate, format) pairs one loader call attempts.                 *)
(***************************************************************************)
\* How many times candidate c has been attempted with format fmt.
Times(c, fmt) == Occurrences(AttemptedPairs, [cand |-> c, fmt |-> fmt])

\* Every attempt the loops make on the i-th candidate has been made.
Exhausted(i) == i < Len(load.plans) \/ (load.pc = "raised" /\ attempts # <<>>)

\* C33 (as stated): within one call no (candidate, format) pair is
\* attempted more than once, the Turtle fast path counting as an attempt
\* with format turtle.
C33_NoPairTwice ==
    \A i \in 1..Len(attempts) : Times(attempts[i].cand, attempts[i].fmt) = 1

\* C33 (amended): within one call a (candidate, format) pair is attempted
\* at most once, except turtle on a candidate with .ttl among its suffixes:
\* it is attempted by the fast path and, when that fails, once more from
\* the detected formats, so exactly twice when every attempt on the
\* candidate fails.
C33_OnlyTurtleTwice ==
    /\ \A i \in 1..Len(attempts) :
          Times(attempts[i].cand, attempts[i].fmt)
             <= IF attempts[i].fmt = "turtle" /\ HasTtl(attempts[i].cand)
                THEN 2 ELSE 1
    /\ \A i \in 1..Len(load.plans) :
          LET p == load.plans[i]
          IN /\ HasTtl(p.cand) =>
                   /\ p.formats[1] = "turtle"
                   /\ Occurrences(p.formats, "turtle") = 2
             /\ Exhausted(i) =>
                   Times(p.cand, "turtle") = IF HasTtl(p.cand) THEN 2 ELSE 1

C33_Witness ==
    /\ load.pc = "raised"
    /\ Len(load.plans) >= 2
    /\ \E i, j \in 1..Len(load.plans) :
          /\ HasTtl(load.plans[i].cand) /\ Times(load.plans[i].cand, "turtle") = 2
          /\ ~HasTtl(load.plans[j].cand) /\ Times(load.plans[j].cand, "turtle") = 1

\* C34: for every candidate that is reached, the format guessed from its
\* final file extension is among the formats attempted for it; an RDF/XML
\* file the repair step derived from a .ttl input is attempted as xml.
C34_GuessedFormatAttempted ==
    \A i \in 1..Len(load.plans) :
        LET p == load.plans[i]
        IN GuessFormat(p.cand) # "" =>
              GuessFormat(p.cand) \in SeqToSet(p.formats)

\* The records of the cycle's log for which a task was dispatched.
DispatchedEntries == {i \in 1..Len(sync_log) : sync_log[i].dispatched}

\* C36: a download or dispatch that raises for one catalog record does not
\* stop the cycle: every record of the listing is processed, in order, sync
\* returns status ok and the queued count is the number of records for
\* which a task was dispatched.
C36_FailureDoesNotStopCycle ==
    /\ sync.pc = "processing" =>
          Len(sync_log) + Len(sync.todo) = Len(CatalogOrder)
    /\ sync.pc = "raised" => sync_log = <<>>
    /\ (sync.pc = "returned" /\ sync.fetch = "records") =>
          /\ Len(sync_log) = Len(CatalogOrder)
          /\ \A i \in 1..Len(sync_log) : sync_log[i].acronym = CatalogOrder[i]
          /\ sync.result.status = "ok"
          /\ sync.result.queued = Cardinality(DispatchedEntries)
          /\ Len(sync.result.jobs) = sync.result.queued
          /\ \A i \in DispatchedEntries :
                /\ task[sync_log[i].task].pc # "none"
                /\ task[sync_log[i].task].ontology_id = sync_log[i].acronym
                /\ \E j \in 1..Len(sync.result.jobs) :
                      /\ sync.result.jobs[j].task_id = TaskId(sync_log[i].task)
                      /\ sync.result.jobs[j].ontology_id = sync_log[i].acronym

C36_Witness ==
    /\ sync.pc = "returned"
    /\ Len(sync_log) = 2
    /\ sync_log[1].raised
    /\ sync_log[2].dispatched
    /\ sync.result.status = "ok" /\ sync.result.queued = 1

\* The versions of the records the store holds for ontology o.
Indexed(o) == {x.version : x \in RecordsOf(store, o)}

\* The ingestion dispatched for o at the catalog's version has completed
\* successfully with at least one chunk, and none is pending or running.
Settled(o) ==
    /\ InFlight(o) = {}
    /\ \E k \in TaskNums :
          /\ task[k].ontology_id = o /\ task[k].version = catalog[o]
          /\ task[k].pc = "success" /\ task[k].nchunks > 0

\* C35: with store queries answered and ingestions completing before the
\* next cycle, once the ingestion dispatched for an ontology at the
\* catalog's version has succeeded with at least one chunk the store holds
\* that version only for it; a cycle dispatches nothing for a record indexed
\* at its version only; and a cycle in which this is so for every record
\* returns queued = 0.
C35_QuiescentAfterSuccess ==
    /\ \A o \in Ontologies : Settled(o) => Indexed(o) = {catalog[o]}
    /\ \A i \in 1..Len(sync_log) :
          /\ sync_log[i].query_ok
          /\ sync_log[i].indexed = {sync_log[i].version} =>
                /\ ~sync_log[i].dispatched /\ ~sync_log[i].raised
                /\ sync_log[i].task = 0
    /\ (/\ sync.pc = "returned" /\ sync.fetch = "records"
        /\ \A i \in 1..Len(sync_log) :
              sync_log[i].indexed = {sync_log[i].version}) =>
          /\ sync.result.status = "ok"
          /\ sync.result.queued = 0

C35_Witness ==
    /\ sync.pc = "returned" /\ sync.fetch = "records"
    /\ Len(sync_log) = Len(CatalogOrder)
    /\ sync.result.queued = 0
    /\ \A o \in Ontologies : Settled(o) /\ catalog[o] = CatalogVersions[1]
    /\ \E k \in TaskNums : ~task[k].is_update

=============================================================================
